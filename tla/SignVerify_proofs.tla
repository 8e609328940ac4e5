-------------------------- MODULE SignVerify_proofs --------------------------
(***************************************************************************)
(* sign_and_embed and verify over one directory, for any number of runs,   *)
(* verifiers, backends and crashes: type correctness; a run that returned  *)
(* verifies; a positive verdict is about one run; and key.json commits the *)
(* first run.                                                              *)
(***************************************************************************)
EXTENDS SignVerify, TLAPS, FiniteSetTheorems

-----------------------------------------------------------------------------
(* The files                                                                *)

\* A file is absent, empty, garbled, or holds one of the values; only then it
\* parses.
LEMMA FileOfCases ==
  ASSUME NEW V, NEW f \in FileOf(V)
  PROVE  /\ f.st \in {"absent", "empty", "garbled", "whole"}
         /\ Parses(f) => f.val \in V
  BY DEF FileOf, Absent, Empty, Garbled, Parses

\* The constant contents are files.
LEMMA ConstantFiles ==
  ASSUME NEW V
  PROVE  Absent \in FileOf(V) /\ Empty \in FileOf(V) /\ Garbled \in FileOf(V)
  BY DEF FileOf

\* A written text is a file, and it parses to what was written.
LEMMA WholeFile ==
  ASSUME NEW V, NEW v \in V
  PROVE  Whole(v) \in FileOf(V) /\ Parses(Whole(v)) /\ Whole(v).val = v
  BY DEF FileOf, Whole, Parses

\* Empty, absent and garbled files do not parse.
LEMMA NothingToParse == ~Parses(Absent) /\ ~Parses(Empty) /\ ~Parses(Garbled)
  BY DEF Parses, Absent, Empty, Garbled

-----------------------------------------------------------------------------

\* The labels of a run, by what it has done.
BeforeBlob == {"load", "openImage", "writeImage", "openStore", "openBlob"}
PastKey    == {"done"}
PastUri    == {"openKey", "writeKey"} \cup PastKey
PastMkey   == {"openUri", "writeUri"} \cup PastUri
PastIndex  == {"openMkey", "writeMkey"} \cup PastMkey
PastBlob   == {"openIndex", "writeIndex"} \cup PastIndex
PastStore  == {"openBlob", "writeBlob"} \cup PastBlob
PastImage  == {"openStore"} \cup PastStore

\* What files and store hold comes from runs that were started.
Made ==
  /\ signer.pc # "idle" => run \in DOMAIN made
  /\ Parses(imageF) => imageF.val \in DOMAIN made
  /\ Parses(keyF) => keyF.val \in DOMAIN made
  /\ \A e \in root.blobs : e[2] \in DOMAIN made /\ made[e[2]].backend = e[1]
  /\ \A d \in root.dirs : \E r \in DOMAIN made : d \in DirsOf(made[r].backend)
  /\ Exists(root.index) => \E r \in DOMAIN made : HasIndex(made[r].backend)

\* The run in progress: it writes every file once, and alone.
Progress ==
  /\ signer.pc \in BeforeBlob => \A k \in Kinds : <<k, run>> \notin root.blobs
  /\ signer.pc \in PastImage => imageF = Whole(run)
  /\ signer.pc \in PastStore => DirsOf(backend) \subseteq root.dirs
  /\ signer.pc \in PastBlob => <<backend, run>> \in root.blobs
  /\ signer.pc \in {"openIndex", "writeIndex"} =>
       HasIndex(backend) /\ <<backend, run>> \in signer.idx
  /\ signer.pc \in PastIndex /\ HasIndex(backend) =>
       Parses(root.index) /\ <<backend, run>> \in root.index.val
  /\ signer.pc \in PastMkey => mkeyF = Whole(run)
  /\ signer.pc \in PastUri => uriF = Whole(run)
  /\ signer.pc \in PastKey => keyF = Whole(run)

\* What a verifier has read comes from runs that were started, and opening
\* the backend it detected makes no directory.
Reading(v) ==
  LET s == verifier[v] IN
  /\ s.pc \in {"readKey", "detect", "open", "resolve", "verdict"} => s.img \in DOMAIN made
  /\ s.pc \in {"detect", "open", "resolve", "verdict"} => s.key \in DOMAIN made
  /\ s.pc = "open" => DirsOf(s.kind) \subseteq root.dirs
  /\ s.verdict # "none" => s.pc = "verdict"

Readings == \A v \in Verifiers : Reading(v)

\* When a verifier has read the key of the only run there was, that run has
\* returned, and nothing the verifier looked at since has changed.
Committed(v) ==
  LET s == verifier[v] IN
  \A r \in Runs : DOMAIN made = {r} =>
    /\ s.pc \in {"detect", "open", "resolve", "verdict"} =>
         signer.pc = "done" /\ run = r /\ s.img = r /\ s.key = r
    /\ s.pc \in {"open", "resolve"} => s.kind = Detected(root)
    /\ s.pc = "resolve" => s.idx = LoadedIndex(root, s.kind)

\* The only run there was has returned when its key can be read.
KeyIsLast ==
  \A r \in Runs : DOMAIN made = {r} /\ Parses(keyF) => signer.pc = "done"

FirstRun == KeyIsLast /\ \A v \in Verifiers : Committed(v)

-----------------------------------------------------------------------------
(* Type correctness                                                         *)

OutputsOK ==
  /\ outDir \in BOOLEAN
  /\ imageF \in FileOf(Runs) /\ mkeyF \in FileOf(Runs)
  /\ uriF \in FileOf(Runs) /\ keyF \in FileOf(Runs)
  /\ root \in Roots(Runs)

SignerOK ==
  /\ signer \in [pc : SignPCs, run : Runs \cup {NoRun}, idx : SUBSET Entries(Runs)]
  /\ DOMAIN made \subseteq Runs
  /\ \A r \in DOMAIN made : made[r] \in [backend : Backends, profile : Profiles]

VerifierStates ==
  [pc : VerifyPCs, profile : Profiles \cup {"alpha_lsb"},
   img : Runs \cup {NoRun}, key : Runs \cup {NoRun}, kind : Kinds,
   idx : SUBSET Entries(Runs), verdict : Verdicts]

VerifiersOK == verifier \in [Verifiers -> VerifierStates]

LEMMA TypeParts ==
  TypeOK <=> OutputsOK /\ SignerOK /\ VerifiersOK /\ crashes \in 0..MaxCrashes
  BY DEF TypeOK, OutputsOK, SignerOK, VerifiersOK, VerifierStates

\* A run that is in progress was started, with one of the backends.
LEMMA RunStarted ==
  ASSUME SignerOK, Made, signer.pc # "idle"
  PROVE  /\ run \in Runs /\ run \in DOMAIN made
         /\ backend \in Kinds /\ <<backend, run>> \in Entries(Runs)
  BY BackendsAssumption DEF SignerOK, Made, run, backend, Entries

LEMMA SignGotoType ==
  ASSUME SignerOK, NEW l \in SignPCs, SignGoto(l)
  PROVE  signer' \in [pc : SignPCs, run : Runs \cup {NoRun}, idx : SUBSET Entries(Runs)]
         /\ signer'.pc = l /\ signer'.run = signer.run /\ signer'.idx = signer.idx
  BY DEF SignerOK, SignGoto

\* Opening a store, and the steps of put_bytes, give a root directory.
LEMMA RootTypes ==
  ASSUME NEW M, NEW r \in Roots(M), NEW k \in Kinds, NEW m \in M
  PROVE  /\ Opened(r, k) \in Roots(M)
         /\ Opened(r, k).index = r.index /\ Opened(r, k).blobs = r.blobs
         /\ Opened(r, k).dirs = r.dirs \cup DirsOf(k)
         /\ BlobOpened(r, k, m) \in Roots(M)
         /\ BlobOpened(r, k, m).index = r.index /\ BlobOpened(r, k, m).dirs = r.dirs
         /\ BlobOpened(r, k, m).blobs = r.blobs \ {<<k, m>>}
         /\ BlobWritten(r, k, m) \in Roots(M)
         /\ BlobWritten(r, k, m).index = r.index /\ BlobWritten(r, k, m).dirs = r.dirs
         /\ BlobWritten(r, k, m).blobs = r.blobs \cup {<<k, m>>}
<1>1. DirsOf(k) \in SUBSET {"manifests", "blocks"}
  BY DEF DirsOf
<1>2. <<k, m>> \in Entries(M)
  BY DEF Entries
<1> QED BY <1>1, <1>2 DEF Roots, Opened, BlobOpened, BlobWritten

\* Rewriting the index gives a root directory with the same files.
LEMMA IndexTypes ==
  ASSUME NEW M, NEW r \in Roots(M), NEW f \in FileOf(SUBSET Entries(M))
  PROVE  LET s == [r EXCEPT !.index = f] IN
         /\ s \in Roots(M) /\ s.index = f /\ s.blobs = r.blobs /\ s.dirs = r.dirs
  BY DEF Roots

LEMMA LoadedIndexType ==
  ASSUME NEW M, NEW r \in Roots(M), NEW k, Opens(r, k)
  PROVE  LoadedIndex(r, k) \in SUBSET Entries(M)
<1>1. r.index \in FileOf(SUBSET Entries(M))
  BY DEF Roots
<1>2. CASE HasIndex(k) /\ Exists(r.index)
  <2>1. r.index.val \in SUBSET Entries(M)
    BY <1>1, <1>2, FileOfCases DEF Opens
  <2> QED BY <1>2, <2>1 DEF LoadedIndex
<1>3. CASE ~(HasIndex(k) /\ Exists(r.index))
  BY <1>3 DEF LoadedIndex
<1> QED BY <1>2, <1>3

\* Opening a backend whose directory is there changes nothing.
LEMMA ReopenedSame ==
  ASSUME NEW M, NEW r \in Roots(M), NEW k, DirsOf(k) \subseteq r.dirs
  PROVE  Opened(r, k) = r
<1>1. r.dirs \cup DirsOf(k) = r.dirs
  OBVIOUS
<1> QED BY <1>1 DEF Opened, Roots

LEMMA DetectedKind ==
  ASSUME NEW r
  PROVE  Detected(r) \in Kinds /\ DirsOf(Detected(r)) \subseteq r.dirs
  BY DEF Detected, Kinds, DirsOf

-----------------------------------------------------------------------------
(* The invariant, as far as the run in progress is concerned                *)

Signing == OutputsOK /\ SignerOK /\ Made /\ Progress

LEMMA InitSigning == Init => Signing /\ VerifiersOK
<1> SUFFICES ASSUME Init PROVE Signing /\ VerifiersOK
  OBVIOUS
<1>1. OutputsOK
  BY ConstantFiles DEF Init, OutputsOK, Roots, EmptyRoot
<1>2. SignerOK
  BY DEF Init, SignerOK, SignPCs
<1>3. Made /\ Progress
  BY NothingToParse DEF Init, Made, Progress, EmptyRoot, Exists, Absent, BeforeBlob,
     PastImage, PastStore, PastBlob, PastIndex, PastMkey, PastUri, PastKey
<1>4. NoRead \in VerifierStates
  BY DEF NoRead, VerifierStates, VerifyPCs, Verdicts, Kinds
<1> QED BY <1>1, <1>2, <1>3, <1>4 DEF Signing, Init, VerifiersOK

LEMMA StartSigning ==
  ASSUME Signing, NEW r \in Runs, NEW b \in Backends, NEW p \in Profiles,
         StartSign(r, b, p)
  PROVE  Signing'
<1> USE DEF Signing
<1>0. signer' = [pc |-> "load", run |-> r, idx |-> {}] /\ r \notin DOMAIN made
      /\ UNCHANGED <<imageF, mkeyF, uriF, keyF, root>> /\ outDir' = TRUE
  BY DEF StartSign
<1>1. /\ DOMAIN made' = DOMAIN made \cup {r}
      /\ \A x \in DOMAIN made : made'[x] = made[x]
      /\ made'[r] = [backend |-> b, profile |-> p]
  BY DEF StartSign
<1>2. OutputsOK'
  BY <1>0 DEF OutputsOK
<1>3. SignerOK'
  BY <1>0, <1>1 DEF SignerOK, SignPCs
<1>4. Made'
  BY <1>0, <1>1 DEF Made, run
<1>5. Progress'
  BY <1>0 DEF Progress, Made, run, BeforeBlob, PastImage, PastStore, PastBlob,
     PastIndex, PastMkey, PastUri, PastKey
<1> QED BY <1>2, <1>3, <1>4, <1>5

\* A step of the run that moves to another label: what there is to show.
LEMMA SignMoves ==
  ASSUME Signing, signer.pc # "idle", NEW l \in SignPCs \ {"idle"}, SignGoto(l),
         UNCHANGED <<outDir, made>>,
         imageF' \in FileOf(Runs), Parses(imageF') => imageF'.val \in DOMAIN made,
         keyF' \in FileOf(Runs), Parses(keyF') => keyF'.val \in DOMAIN made,
         mkeyF' \in FileOf(Runs), uriF' \in FileOf(Runs),
         root' \in Roots(Runs),
         \A e \in root'.blobs : e \in root.blobs \/ e = <<backend, run>>,
         root'.dirs \subseteq root.dirs \cup DirsOf(backend),
         Exists(root'.index) => Exists(root.index) \/ HasIndex(backend),
         Progress'
  PROVE  Signing'
<1> USE DEF Signing
<1>1. signer'.run = signer.run /\ signer'.pc = l /\ SignerOK'
  BY SignGotoType DEF SignerOK
<1>2. OutputsOK'
  BY DEF OutputsOK
<1>3. run \in DOMAIN made
  BY RunStarted
<1>4. \A e \in root'.blobs : e[2] \in DOMAIN made /\ made[e[2]].backend = e[1]
  BY <1>3 DEF Made, backend
<1>5. \A d \in root'.dirs : \E r \in DOMAIN made : d \in DirsOf(made[r].backend)
  BY <1>3 DEF Made, backend
<1>6. Exists(root'.index) => \E r \in DOMAIN made : HasIndex(made[r].backend)
  BY <1>3 DEF Made, backend
<1>7. Made'
  BY <1>1, <1>3, <1>4, <1>5, <1>6 DEF Made, run
<1> QED BY <1>1, <1>2, <1>7

\* The run gives up or dies: it is over, and nothing is claimed of it.
LEMMA SignEnds ==
  ASSUME Signing, SignGoto("idle"), UNCHANGED <<outputs, made>>
  PROVE  Signing'
<1> USE DEF Signing, outputs
<1>1. SignerOK' /\ signer'.pc = "idle"
  BY SignGotoType DEF SignPCs, SignerOK
<1>2. OutputsOK' /\ Made'
  BY <1>1 DEF OutputsOK, Made
<1>3. Progress'
  BY <1>1 DEF Progress, BeforeBlob, PastImage, PastStore, PastBlob, PastIndex,
     PastMkey, PastUri, PastKey
<1> QED BY <1>1, <1>2, <1>3

LEMMA OutputSteps ==
  ASSUME Signing, WriteImage \/ WriteManifestKey \/ WriteStorageUri \/ WriteKeyEnvelope
  PROVE  Signing'
<1> USE DEF Signing
<1>1. signer.pc # "idle" /\ UNCHANGED <<outDir, root, made>>
  BY DEF WriteImage, WriteManifestKey, WriteStorageUri, WriteKeyEnvelope
<1>2. run \in Runs /\ run \in DOMAIN made
  BY <1>1, RunStarted
<1>3. Whole(run) \in FileOf(Runs) /\ Parses(Whole(run)) /\ Whole(run).val = run
      /\ Empty \in FileOf(Runs) /\ ~Parses(Empty)
  BY <1>2, WholeFile, ConstantFiles, NothingToParse
<1> USE DEF BeforeBlob, PastImage, PastStore, PastBlob, PastIndex, PastMkey,
            PastUri, PastKey
<1>p. ASSUME NEW l \in SignPCs, SignGoto(l)
      PROVE  signer'.pc = l /\ run' = run /\ backend' = backend /\ signer'.idx = signer.idx
  BY <1>1, <1>p, SignGotoType DEF run, backend
<1>4. CASE WriteImage
  <2>1. UNCHANGED <<mkeyF, uriF, keyF>>
    BY <1>4 DEF WriteImage
  <2>2. PICK l \in {"writeImage", "openStore"} :
          /\ SignGoto(l) /\ imageF' = IF l = "openStore" THEN Whole(run) ELSE Empty
          /\ signer.pc \in {"openImage", "writeImage"}
    BY <1>4 DEF WriteImage
  <2>3. Progress'
    BY <1>1, <2>1, <2>2, <1>p DEF Progress, SignPCs
  <2> QED BY <1>1, <1>2, <1>3, <2>1, <2>2, <2>3, SignMoves DEF SignPCs, OutputsOK, Made
<1>5. CASE WriteManifestKey
  <2>1. UNCHANGED <<imageF, uriF, keyF>>
    BY <1>5 DEF WriteManifestKey
  <2>2. PICK l \in {"writeMkey", "openUri"} :
          /\ SignGoto(l) /\ mkeyF' = IF l = "openUri" THEN Whole(run) ELSE Empty
          /\ signer.pc \in {"openMkey", "writeMkey"}
    BY <1>5 DEF WriteManifestKey
  <2>3. Progress'
    BY <1>1, <2>1, <2>2, <1>p DEF Progress, SignPCs
  <2> QED BY <1>1, <1>2, <1>3, <2>1, <2>2, <2>3, SignMoves DEF SignPCs, OutputsOK, Made
<1>6. CASE WriteStorageUri
  <2>1. UNCHANGED <<imageF, mkeyF, keyF>>
    BY <1>6 DEF WriteStorageUri
  <2>2. PICK l \in {"writeUri", "openKey"} :
          /\ SignGoto(l) /\ uriF' = IF l = "openKey" THEN Whole(run) ELSE Empty
          /\ signer.pc \in {"openUri", "writeUri"}
    BY <1>6 DEF WriteStorageUri
  <2>3. Progress'
    BY <1>1, <2>1, <2>2, <1>p DEF Progress, SignPCs
  <2> QED BY <1>1, <1>2, <1>3, <2>1, <2>2, <2>3, SignMoves DEF SignPCs, OutputsOK, Made
<1>7. CASE WriteKeyEnvelope
  <2>1. UNCHANGED <<imageF, mkeyF, uriF>>
    BY <1>7 DEF WriteKeyEnvelope
  <2>2. PICK l \in {"writeKey", "done"} :
          /\ SignGoto(l) /\ keyF' = IF l = "done" THEN Whole(run) ELSE Empty
          /\ signer.pc \in {"openKey", "writeKey"}
    BY <1>7 DEF WriteKeyEnvelope
  <2>3. Progress'
    BY <1>1, <2>1, <2>2, <1>p DEF Progress, SignPCs
  <2> QED BY <1>1, <1>2, <1>3, <2>1, <2>2, <2>3, SignMoves DEF SignPCs, OutputsOK, Made
<1> QED BY <1>4, <1>5, <1>6, <1>7

LEMMA OpenStoreStep ==
  ASSUME Signing, OpenStore
  PROVE  Signing'
<1> USE DEF Signing
<1>1. /\ signer.pc = "openStore"
      /\ UNCHANGED <<outDir, imageF, mkeyF, uriF, keyF, made>>
  BY DEF OpenStore
<1>2. CASE ~Opens(root, backend)
  BY <1>1, <1>2, SignEnds DEF OpenStore, outputs
<1>3. CASE Opens(root, backend)
  <2>1. /\ root' = Opened(root, backend)
        /\ signer' = [signer EXCEPT !.pc = "openBlob", !.idx = LoadedIndex(root, backend)]
    BY <1>3 DEF OpenStore
  <2>2. run \in Runs /\ run \in DOMAIN made /\ backend \in Kinds
    BY <1>1, RunStarted
  <2>3. /\ root' \in Roots(Runs) /\ root'.index = root.index /\ root'.blobs = root.blobs
        /\ root'.dirs = root.dirs \cup DirsOf(backend)
    BY <2>1, <2>2, RootTypes DEF OutputsOK
  <2>4. LoadedIndex(root, backend) \in SUBSET Entries(Runs)
    BY <1>3, LoadedIndexType DEF OutputsOK
  <2>5. SignerOK' /\ signer'.pc = "openBlob" /\ signer'.run = signer.run
    BY <1>1, <2>1, <2>4 DEF SignerOK, SignPCs
  <2>6. OutputsOK'
    BY <1>1, <2>3 DEF OutputsOK
  <2>7. \A d \in root'.dirs : \E r \in DOMAIN made : d \in DirsOf(made[r].backend)
    BY <2>2, <2>3 DEF Made, backend
  <2>8. Made'
    BY <1>1, <2>2, <2>3, <2>5, <2>7 DEF Made, run
  <2>9. Progress'
    BY <1>1, <2>3, <2>5 DEF Progress, run, backend, BeforeBlob, PastImage, PastStore,
       PastBlob, PastIndex, PastMkey, PastUri, PastKey
  <2> QED BY <2>5, <2>6, <2>8, <2>9
<1> QED BY <1>2, <1>3

\* put_bytes: the manifest's file, then the copy of the index, then index.json.
LEMMA PutStep ==
  ASSUME Signing, PutManifest
  PROVE  Signing'
<1> USE DEF Signing
<1>1. /\ signer.pc \in {"openBlob", "writeBlob", "openIndex", "writeIndex"}
      /\ UNCHANGED <<outDir, imageF, mkeyF, uriF, keyF, made>>
  BY DEF PutManifest
<1>2. /\ run \in Runs /\ run \in DOMAIN made /\ backend \in Kinds
      /\ <<backend, run>> \in Entries(Runs)
  BY <1>1, RunStarted
<1>3. root \in Roots(Runs)
  BY DEF OutputsOK
<1> USE DEF BeforeBlob, PastImage, PastStore, PastBlob, PastIndex, PastMkey,
            PastUri, PastKey
<1>p. ASSUME NEW l \in SignPCs, SignGoto(l)
      PROVE  signer'.pc = l /\ run' = run /\ backend' = backend /\ signer'.idx = signer.idx
  BY <1>1, <1>p, SignGotoType DEF run, backend
<1>4. CASE signer.pc = "openBlob"
  <2>1. SignGoto("writeBlob") /\ root' = BlobOpened(root, backend, run)
    BY <1>4 DEF PutManifest
  <2>2. /\ root' \in Roots(Runs) /\ root'.index = root.index /\ root'.dirs = root.dirs
        /\ root'.blobs = root.blobs \ {<<backend, run>>}
    BY <1>2, <1>3, <2>1, RootTypes
  <2>3. Progress'
    BY <1>1, <1>4, <2>1, <2>2, <1>p DEF Progress, SignPCs
  <2> QED BY <1>1, <1>4, <2>1, <2>2, <2>3, SignMoves DEF SignPCs, OutputsOK, Made
<1>5. CASE signer.pc = "writeBlob" /\ ~HasIndex(backend)
  <2>1. SignGoto("openMkey") /\ root' = BlobWritten(root, backend, run)
    BY <1>5 DEF PutManifest
  <2>2. /\ root' \in Roots(Runs) /\ root'.index = root.index /\ root'.dirs = root.dirs
        /\ root'.blobs = root.blobs \cup {<<backend, run>>}
    BY <1>2, <1>3, <2>1, RootTypes
  <2>3. Progress'
    BY <1>1, <1>5, <2>1, <2>2, <1>p DEF Progress, SignPCs
  <2> QED BY <1>1, <1>5, <2>1, <2>2, <2>3, SignMoves DEF SignPCs, OutputsOK, Made
<1>6. CASE signer.pc = "writeBlob" /\ HasIndex(backend)
  <2>1. /\ signer' = [signer EXCEPT !.pc = "openIndex", !.idx = @ \cup {<<backend, run>>}]
        /\ root' = BlobWritten(root, backend, run)
    BY <1>6 DEF PutManifest
  <2>2. /\ root' \in Roots(Runs) /\ root'.index = root.index /\ root'.dirs = root.dirs
        /\ root'.blobs = root.blobs \cup {<<backend, run>>}
    BY <1>2, <1>3, <2>1, RootTypes
  <2>3. /\ SignerOK' /\ signer'.pc = "openIndex" /\ signer'.run = signer.run
        /\ <<backend, run>> \in signer'.idx
    BY <1>1, <1>2, <2>1 DEF SignerOK, SignPCs
  <2>4. OutputsOK'
    BY <1>1, <2>2 DEF OutputsOK
  <2>5. \A e \in root'.blobs : e[2] \in DOMAIN made /\ made[e[2]].backend = e[1]
    BY <1>2, <2>2 DEF Made, backend
  <2>6. Made'
    BY <1>1, <1>2, <2>2, <2>3, <2>5 DEF Made, run
  <2>7. Progress'
    BY <1>1, <1>6, <2>2, <2>3 DEF Progress, run, backend
  <2> QED BY <2>3, <2>4, <2>6, <2>7
<1>7. CASE signer.pc = "openIndex" \/ signer.pc = "writeIndex"
  <2>1. PICK l \in {"writeIndex", "openMkey"} :
          /\ SignGoto(l)
          /\ root' = [root EXCEPT !.index = IF l = "openMkey" THEN Whole(signer.idx)
                                            ELSE Empty]
    BY <1>7 DEF PutManifest
  <2>2. signer.idx \in SUBSET Entries(Runs)
    BY DEF SignerOK
  <2>3. Whole(signer.idx) \in FileOf(SUBSET Entries(Runs))
        /\ Parses(Whole(signer.idx)) /\ Whole(signer.idx).val = signer.idx
        /\ Empty \in FileOf(SUBSET Entries(Runs))
    BY <2>2, WholeFile, ConstantFiles
  <2>4. /\ root' \in Roots(Runs) /\ root'.blobs = root.blobs /\ root'.dirs = root.dirs
        /\ root'.index = IF l = "openMkey" THEN Whole(signer.idx) ELSE Empty
    BY <1>3, <2>1, <2>3, IndexTypes
  <2>5. HasIndex(backend)
    BY <1>7 DEF Progress
  <2>6. Progress'
    BY <1>1, <1>7, <2>1, <2>3, <2>4, <1>p DEF Progress, SignPCs
  <2> QED BY <1>1, <1>7, <2>1, <2>4, <2>5, <2>6, SignMoves DEF SignPCs, OutputsOK, Made
<1> QED BY <1>1, <1>4, <1>5, <1>6, <1>7

-----------------------------------------------------------------------------
(* The verifiers                                                            *)

\* Verifying changes none of the outputs: opening the detected backend finds
\* its directory there.
LEMMA VerifyOnlyReads ==
  ASSUME OutputsOK, NEW v \in Verifiers, Reading(v), VerifyStep(v)
  PROVE  UNCHANGED <<outputs, signVars, crashes>>
<1>1. ASSUME OpenForVerify(v) PROVE root' = root
  BY <1>1, ReopenedSame DEF OpenForVerify, Reading, OutputsOK
<1> QED BY <1>1 DEF VerifyStep, ReadImage, ReadKey, DetectBackend, OpenForVerify,
        Resolve, outputs

LEMMA VerifyTypes ==
  ASSUME OutputsOK, VerifiersOK, NEW v \in Verifiers,
         (\E p \in Profiles \cup {"alpha_lsb"} : StartVerify(v, p)) \/ VerifyStep(v)
  PROVE  VerifiersOK'
<1>s. verifier[v] \in VerifierStates
  BY DEF VerifiersOK
<1>u. ASSUME NEW s \in VerifierStates, verifier' = [verifier EXCEPT ![v] = s]
      PROVE  VerifiersOK'
  BY <1>u DEF VerifiersOK
<1> USE DEF VerifierStates, VerifyPCs
<1>1. ASSUME NEW p \in Profiles \cup {"alpha_lsb"}, StartVerify(v, p) PROVE VerifiersOK'
  <2>1. [NoRead EXCEPT !.pc = "readImage", !.profile = p] \in VerifierStates
    BY DEF NoRead, Kinds, Verdicts
  <2> QED BY <1>1, <1>u, <2>1 DEF StartVerify
<1>2. CASE ReadImage(v)
  <2>1. Parses(imageF) => imageF.val \in Runs
    BY FileOfCases DEF OutputsOK
  <2>2. (IF Parses(imageF)
         THEN [verifier[v] EXCEPT !.pc = "readKey", !.img = imageF.val]
         ELSE [verifier[v] EXCEPT !.pc = "error"]) \in VerifierStates
    BY <1>s, <2>1
  <2> QED BY <1>2, <1>u, <2>2 DEF ReadImage
<1>3. CASE ReadKey(v)
  <2>1. Parses(keyF) => keyF.val \in Runs
    BY FileOfCases DEF OutputsOK
  <2>2. (IF Parses(keyF)
         THEN [verifier[v] EXCEPT !.pc = "detect", !.key = keyF.val]
         ELSE [verifier[v] EXCEPT !.pc = "error"]) \in VerifierStates
    BY <1>s, <2>1
  <2> QED BY <1>3, <1>u, <2>2 DEF ReadKey
<1>4. CASE DetectBackend(v)
  <2>1. [verifier[v] EXCEPT !.pc = "open", !.kind = Detected(root)] \in VerifierStates
    BY <1>s, DetectedKind
  <2>2. verifier' = [verifier EXCEPT ![v] =
                       [verifier[v] EXCEPT !.pc = "open", !.kind = Detected(root)]]
    BY <1>4 DEF DetectBackend, VerifiersOK
  <2> QED BY <1>u, <2>1, <2>2
<1>5. CASE OpenForVerify(v)
  <2> DEFINE k == verifier[v].kind
  <2>1. Opens(root, k) => LoadedIndex(root, k) \in SUBSET Entries(Runs)
    BY LoadedIndexType DEF OutputsOK
  <2>2. (IF Opens(root, k)
         THEN [verifier[v] EXCEPT !.pc = "resolve", !.idx = LoadedIndex(root, k)]
         ELSE [verifier[v] EXCEPT !.pc = "error"]) \in VerifierStates
    BY <1>s, <2>1
  <2> QED BY <1>5, <1>u, <2>2 DEF OpenForVerify
<1>6. CASE Resolve(v)
  <2>1. PICK d \in VerdictsFor(verifier[v].img, verifier[v].key, verifier[v].profile,
                     Finds(root, verifier[v].kind, verifier[v].idx, verifier[v].img)) :
          verifier' = [verifier EXCEPT ![v].pc = "verdict", ![v].verdict = d]
    BY <1>6 DEF Resolve
  <2>2. d \in Verdicts
    BY <2>1 DEF VerdictsFor, Verdicts
  <2>3. [verifier[v] EXCEPT !.pc = "verdict", !.verdict = d] \in VerifierStates
    BY <1>s, <2>2
  <2>4. verifier' = [verifier EXCEPT ![v] =
                       [verifier[v] EXCEPT !.pc = "verdict", !.verdict = d]]
    BY <2>1 DEF VerifiersOK
  <2> QED BY <1>u, <2>3, <2>4
<1> QED BY <1>1, <1>2, <1>3, <1>4, <1>5, <1>6 DEF VerifyStep

\* What a step of the signing side leaves to the verifiers: the runs there
\* were, their manifests, and the directories.
Keeps ==
  /\ \A r \in DOMAIN made : r \in DOMAIN made' /\ made'[r] = made[r]
  /\ root.blobs \subseteq root'.blobs /\ root.dirs \subseteq root'.dirs

LEMMA SigningKeeps ==
  ASSUME Signing,
         \/ \E r \in Runs, b \in Backends, p \in Profiles : StartSign(r, b, p)
         \/ SignStep \/ CrashSigner
  PROVE  Keeps /\ verifier' = verifier
<1> USE DEF Signing
<1>1. ASSUME NEW r \in Runs, NEW b \in Backends, NEW p \in Profiles, StartSign(r, b, p)
      PROVE  Keeps /\ verifier' = verifier
  BY <1>1 DEF StartSign, Keeps
<1>2. CASE LoadAndEmbed \/ WriteImage \/ WriteManifestKey \/ WriteStorageUri
           \/ WriteKeyEnvelope \/ CrashSigner
  BY <1>2 DEF LoadAndEmbed, WriteImage, WriteManifestKey, WriteStorageUri,
     WriteKeyEnvelope, CrashSigner, outputs, Keeps
<1>3. CASE OpenStore
  <2>1. backend \in Kinds /\ run \in Runs
    BY <1>3, RunStarted DEF OpenStore
  <2>2. root' = root \/ root' = Opened(root, backend)
    BY <1>3 DEF OpenStore
  <2> QED BY <1>3, <2>1, <2>2, RootTypes DEF OpenStore, Keeps, OutputsOK
<1>4. CASE PutManifest
  <2>1. backend \in Kinds /\ run \in Runs
    BY <1>4, RunStarted DEF PutManifest
  <2>2. \/ signer.pc = "openBlob" /\ root' = BlobOpened(root, backend, run)
        \/ root' = BlobWritten(root, backend, run)
        \/ root' = [root EXCEPT !.index = Empty]
        \/ root' = [root EXCEPT !.index = Whole(signer.idx)]
    BY <1>4 DEF PutManifest
  <2>3. signer.pc = "openBlob" => <<backend, run>> \notin root.blobs
    BY <2>1 DEF Progress, BeforeBlob
  <2>4. root \in Roots(Runs)
    BY DEF OutputsOK
  <2>5. root.blobs \subseteq root'.blobs /\ root.dirs \subseteq root'.dirs
    <3>1. CASE signer.pc = "openBlob" /\ root' = BlobOpened(root, backend, run)
      <4>1. root'.dirs = root.dirs /\ root'.blobs = root.blobs \ {<<backend, run>>}
        BY <2>1, <2>4, <3>1, RootTypes
      <4> QED BY <2>3, <3>1, <4>1
    <3>2. CASE root' = BlobWritten(root, backend, run)
      BY <2>1, <2>4, <3>2, RootTypes
    <3>3. CASE root' = [root EXCEPT !.index = Empty]
      BY <2>4, <3>3 DEF Roots
    <3>4. CASE root' = [root EXCEPT !.index = Whole(signer.idx)]
      BY <2>4, <3>4 DEF Roots
    <3> QED BY <2>2, <3>1, <3>2, <3>3, <3>4
  <2> QED BY <1>4, <2>5 DEF PutManifest, Keeps
<1> QED BY <1>1, <1>2, <1>3, <1>4 DEF SignStep

LEMMA KeptReadings ==
  ASSUME Made, Readings, VerifiedIsOneRun, Keeps, verifier' = verifier
  PROVE  Readings' /\ VerifiedIsOneRun'
<1>1. Readings'
  BY DEF Readings, Reading, Keeps
<1>2. VerifiedIsOneRun'
  BY DEF VerifiedIsOneRun, Made, Keeps
<1> QED BY <1>1, <1>2

\* A positive verdict needs the manifest, its own key and its own carrier.
LEMMA VerifiedNeeds ==
  ASSUME NEW img, NEW key, NEW profile, NEW found \in BOOLEAN,
         "verified" \in VerdictsFor(img, key, profile, found)
  PROVE  found /\ key = img /\ profile = "alpha_lsb" /\ made[img].profile = profile
  BY DEF VerdictsFor

\* With the manifest and its own key at hand, neither is what is missing.
LEMMA FoundVerdict ==
  ASSUME NEW img, NEW profile, NEW d \in VerdictsFor(img, img, profile, TRUE)
  PROVE  d \notin {"manifest_not_found", "no_valid_signatures"}
  BY DEF VerdictsFor

LEMMA ReadingStep ==
  ASSUME Signing, VerifiersOK, Readings, VerifiedIsOneRun, NEW v \in Verifiers,
         (\E p \in Profiles \cup {"alpha_lsb"} : StartVerify(v, p)) \/ VerifyStep(v)
  PROVE  Readings' /\ VerifiedIsOneRun'
<1> USE DEF Signing
<1>1. UNCHANGED <<outputs, signVars>>
  BY VerifyOnlyReads DEF StartVerify, Readings
<1>2. \A w \in Verifiers : w # v => verifier'[w] = verifier[w]
  BY DEF StartVerify, VerifyStep, ReadImage, ReadKey, DetectBackend, OpenForVerify,
     Resolve, VerifiersOK
\* What is to show of v.
<1>s. ASSUME Reading(v)',
             verifier'[v].verdict = "verified" =>
               LET s == verifier'[v] IN
               s.img = s.key /\ <<s.kind, s.img>> \in root.blobs
                 /\ made[s.img] = [backend |-> s.kind, profile |-> "alpha_lsb"]
      PROVE  Readings' /\ VerifiedIsOneRun'
  <2>1. \A w \in Verifiers : w # v => Reading(w)'
    BY <1>1, <1>2 DEF Readings, Reading, outputs, signVars
  <2>2. Readings'
    BY <1>s, <2>1 DEF Readings
  <2>3. VerifiedIsOneRun'
    BY <1>s, <1>1, <1>2 DEF VerifiedIsOneRun, outputs, signVars
  <2> QED BY <2>2, <2>3
<1> USE DEF VerifiersOK
<1>r. Reading(v) /\ verifier[v] \in VerifierStates
  BY DEF Readings
<1>3. ASSUME NEW p \in Profiles \cup {"alpha_lsb"}, StartVerify(v, p)
      PROVE  Readings' /\ VerifiedIsOneRun'
  <2>1. verifier'[v] = [NoRead EXCEPT !.pc = "readImage", !.profile = p]
    BY <1>3 DEF StartVerify
  <2>2. verifier'[v].pc = "readImage" /\ verifier'[v].verdict = "none"
    BY <2>1 DEF NoRead
  <2>3. Reading(v)'
    BY <2>2 DEF Reading
  <2> QED BY <1>s, <2>2, <2>3
\* The steps before the verdict.
<1>4. ASSUME VerifyStep(v), ~Resolve(v)
      PROVE  Readings' /\ VerifiedIsOneRun'
  <2>1. verifier'[v].verdict = "none"
    BY <1>4, <1>r DEF VerifyStep, ReadImage, ReadKey, DetectBackend, OpenForVerify,
       Reading, VerifierStates
  <2>2. CASE ReadImage(v)
    <3>1. Reading(v)'
      BY <1>1, <1>r, <2>1, <2>2 DEF ReadImage, Reading, VerifierStates, Made, outputs,
         signVars
    <3> QED BY <1>s, <2>1, <3>1
  <2>3. CASE ReadKey(v)
    <3>1. Reading(v)'
      BY <1>1, <1>r, <2>1, <2>3 DEF ReadKey, Reading, VerifierStates, Made, outputs,
         signVars
    <3> QED BY <1>s, <2>1, <3>1
  <2>4. CASE DetectBackend(v)
    <3>1. /\ verifier[v].pc = "detect" /\ verifier'[v].pc = "open"
          /\ verifier'[v].img = verifier[v].img /\ verifier'[v].key = verifier[v].key
          /\ verifier'[v].kind = Detected(root)
      BY <1>r, <2>4 DEF DetectBackend, VerifierStates
    <3>2. DirsOf(Detected(root)) \subseteq root.dirs /\ root' = root /\ made' = made
      BY <1>1, DetectedKind DEF outputs, signVars
    <3>3. Reading(v)'
      BY <1>r, <2>1, <3>1, <3>2 DEF Reading
    <3> QED BY <1>s, <2>1, <3>3
  <2>5. CASE OpenForVerify(v)
    <3>1. Reading(v)'
      BY <1>1, <1>r, <2>1, <2>5 DEF OpenForVerify, Reading, VerifierStates, outputs,
         signVars
    <3> QED BY <1>s, <2>1, <3>1
  <2> QED BY <1>4, <2>2, <2>3, <2>4, <2>5 DEF VerifyStep
<1>5. CASE Resolve(v)
  <2> DEFINE s == verifier[v]
             found == Finds(root, s.kind, s.idx, s.img)
  <2>1. PICK d \in VerdictsFor(s.img, s.key, s.profile, found) :
          verifier' = [verifier EXCEPT ![v].pc = "verdict", ![v].verdict = d]
    BY <1>5 DEF Resolve
  <2>2. /\ s.pc = "resolve"
        /\ verifier'[v] = [s EXCEPT !.pc = "verdict", !.verdict = d]
    BY <1>5, <2>1 DEF Resolve
  <2>3. /\ verifier'[v].pc = "verdict" /\ verifier'[v].verdict = d
        /\ verifier'[v].img = s.img /\ verifier'[v].key = s.key /\ verifier'[v].kind = s.kind
    BY <1>r, <2>2 DEF VerifierStates
  <2>4. Reading(v)'
    BY <1>1, <1>r, <2>2, <2>3 DEF Reading, signVars
  <2>5. ASSUME d = "verified"
        PROVE  /\ s.img = s.key /\ <<s.kind, s.img>> \in root.blobs
               /\ made[s.img] = [backend |-> s.kind, profile |-> "alpha_lsb"]
    <3>1. found \in BOOLEAN
      BY DEF Finds
    <3> HIDE DEF found
    <3>2. found /\ s.key = s.img /\ made[s.img].profile = "alpha_lsb"
      BY <2>1, <2>5, <3>1, VerifiedNeeds
    <3>3. <<s.kind, s.img>> \in root.blobs
      BY <3>2 DEF found, Finds
    <3>4. s.img \in DOMAIN made /\ made[s.img].backend = s.kind
      BY <3>3 DEF Made
    <3>5. made[s.img] \in [backend : Backends, profile : Profiles]
      BY <3>4 DEF SignerOK
    <3> QED BY <3>2, <3>3, <3>4, <3>5
  <2> QED BY <1>s, <2>3, <2>4, <2>5
<1> QED BY <1>3, <1>4, <1>5

-----------------------------------------------------------------------------
(* DoneRunVerifies                                                          *)

LEMMA OneBackend ==
  ASSUME SignerOK, OneBackendSoFar, NEW r \in DOMAIN made, NEW s \in DOMAIN made
  PROVE  made[r].backend = made[s].backend
<1> DEFINE B == {made[x].backend : x \in DOMAIN made}
<1>1. B \subseteq Kinds
  BY BackendsAssumption DEF SignerOK
<1>2. IsFiniteSet(Kinds)
  <2>1. IsFiniteSet({"local"})
    BY FS_Singleton
  <2>2. IsFiniteSet({"local"} \cup {"fake-ipfs"})
    BY <2>1, FS_AddElement
  <2>3. IsFiniteSet(({"local"} \cup {"fake-ipfs"}) \cup {"fake-arweave"})
    BY <2>2, FS_AddElement
  <2> QED BY <2>3 DEF Kinds
<1>3. IsFiniteSet(B)
  BY <1>1, <1>2, FS_Subset
<1>4. PICK b : B = {b}
  BY <1>3, FS_Singleton DEF OneBackendSoFar
<1> QED BY <1>4

\* With one backend so far, a run that returned is found by a reader that
\* detects the backend: directories and index.json are that backend's.
LEMMA ReturnedIsFound ==
  ASSUME Signing, signer.pc = "done", OneBackendSoFar
  PROVE  FreshFinds(root, run)
<1> USE DEF Signing
<1>1. run \in DOMAIN made /\ backend \in Kinds
  BY RunStarted
<1>2. \A r \in DOMAIN made : made[r].backend = backend
  BY <1>1, OneBackend DEF backend
<1>3. root.dirs = DirsOf(backend)
  BY <1>2 DEF Made, Progress, PastStore, PastBlob, PastIndex, PastMkey, PastUri, PastKey
<1>4. Exists(root.index) => HasIndex(backend)
  BY <1>2 DEF Made
<1>5. <<backend, run>> \in root.blobs
  BY DEF Progress, PastBlob, PastIndex, PastMkey, PastUri, PastKey
<1>6. HasIndex(backend) => Parses(root.index) /\ <<backend, run>> \in root.index.val
  BY DEF Progress, PastIndex, PastMkey, PastUri, PastKey
<1>7. Parses(root.index) => Exists(root.index)
  BY DEF Parses, Exists
<1>8. Detected(root) = backend
  BY <1>1, <1>3, <1>4, <1>6, <1>7 DEF Detected, Kinds, DirsOf, HasIndex
<1>9. Opens(root, backend)
  BY <1>6 DEF Opens
<1>10. HasIndex(backend) => <<backend, run>> \in LoadedIndex(root, backend)
  BY <1>6, <1>7 DEF LoadedIndex
<1> QED BY <1>5, <1>8, <1>9, <1>10 DEF FreshFinds, Finds

LEMMA SigningVerifies == Signing => DoneRunVerifies
  BY ReturnedIsFound DEF Signing, DoneRunVerifies, Progress, PastImage, PastStore,
     PastBlob, PastIndex, PastMkey, PastUri, PastKey

-----------------------------------------------------------------------------
(* FirstRunCommits                                                          *)

LEMMA FirstRunSigning ==
  ASSUME Signing, Readings, FirstRun, FirstRunCommits, Keeps, verifier' = verifier,
         \/ \E r \in Runs, b \in Backends, p \in Profiles : StartSign(r, b, p)
         \/ SignStep \/ CrashSigner
  PROVE  FirstRun' /\ FirstRunCommits'
<1> USE DEF Signing
<1> SUFFICES ASSUME NEW r \in Runs, DOMAIN made' = {r}
             PROVE  /\ Parses(keyF') => signer'.pc = "done"
                    /\ \A v \in Verifiers :
                         verifier[v].pc \notin {"detect", "open", "resolve", "verdict"}
  BY DEF FirstRun, KeyIsLast, Committed, FirstRunCommits
<1>1. ASSUME NEW x \in Runs, NEW b \in Backends, NEW p \in Profiles, StartSign(x, b, p)
      PROVE  DOMAIN made = {} /\ keyF' = keyF
  BY <1>1 DEF StartSign
<1>2. ASSUME SignStep \/ CrashSigner
      PROVE  /\ DOMAIN made = {r} /\ signer.pc \notin {"idle", "done"}
             /\ Parses(keyF') => Parses(keyF) \/ signer'.pc = "done"
  <2>1. CASE WriteKeyEnvelope
    BY <2>1, NothingToParse DEF WriteKeyEnvelope, SignGoto, SignerOK
  <2>2. CASE ~WriteKeyEnvelope
    BY <1>2, <2>2 DEF SignStep, LoadAndEmbed, WriteImage, OpenStore, PutManifest,
       WriteManifestKey, WriteStorageUri, CrashSigner, outputs
  <2> QED BY <2>1, <2>2 DEF WriteKeyEnvelope
<1>3. CASE DOMAIN made = {} /\ keyF' = keyF
  BY <1>3 DEF Made, Readings, Reading
<1>4. CASE DOMAIN made = {r} /\ signer.pc \notin {"idle", "done"}
           /\ (Parses(keyF') => Parses(keyF) \/ signer'.pc = "done")
  BY <1>4 DEF FirstRun, KeyIsLast, Committed
<1> QED BY <1>1, <1>2, <1>3, <1>4

LEMMA FirstRunReading ==
  ASSUME Signing, VerifiersOK, Readings, FirstRun, FirstRunCommits, NEW v \in Verifiers,
         (\E p \in Profiles \cup {"alpha_lsb"} : StartVerify(v, p)) \/ VerifyStep(v)
  PROVE  FirstRun' /\ FirstRunCommits'
<1> USE DEF Signing
<1>1. UNCHANGED <<outputs, signVars>>
  BY VerifyOnlyReads DEF StartVerify, Readings
<1>2. \A w \in Verifiers : w # v => verifier'[w] = verifier[w]
  BY DEF StartVerify, VerifyStep, ReadImage, ReadKey, DetectBackend, OpenForVerify,
     Resolve, VerifiersOK
<1>r. verifier[v] \in VerifierStates
  BY DEF VerifiersOK
\* What is to show of v, when there was one run.
<1>s. ASSUME Committed(v)',
             (\E r \in Runs : DOMAIN made = {r}) /\ verifier'[v].pc = "verdict" =>
               verifier'[v].verdict \notin {"manifest_not_found", "no_valid_signatures"}
      PROVE  FirstRun' /\ FirstRunCommits'
  <2>1. ASSUME NEW w \in Verifiers, w # v PROVE Committed(w)'
    <3>1. UNCHANGED <<root, keyF, signer, made, run, verifier[w]>>
      BY <1>1, <1>2, <2>1 DEF outputs, signVars, run
    <3>2. Committed(w)
      BY DEF FirstRun
    <3> QED BY <3>1, <3>2 DEF Committed
  <2>2. FirstRun'
    BY <1>s, <1>1, <2>1 DEF FirstRun, KeyIsLast, outputs, signVars
  <2>3. FirstRunCommits'
    BY <1>s, <1>1, <1>2 DEF FirstRunCommits, signVars
  <2> QED BY <2>2, <2>3
<1>c. Committed(v) /\ Reading(v) /\ KeyIsLast
  BY DEF FirstRun, Readings
<1>k. UNCHANGED <<root, imageF, keyF, signer, made, run>>
  BY <1>1 DEF outputs, signVars, run
<1> USE DEF VerifiersOK, VerifierStates
<1>3. ASSUME NEW p \in Profiles \cup {"alpha_lsb"}, StartVerify(v, p)
      PROVE  FirstRun' /\ FirstRunCommits'
  <2>1. verifier'[v].pc = "readImage"
    BY <1>3 DEF StartVerify, NoRead
  <2>2. Committed(v)'
    BY <1>c, <1>k, <2>1 DEF Committed
  <2> QED BY <1>s, <2>1, <2>2
<1>4. CASE ReadImage(v)
  <2>1. verifier'[v].pc \in {"readKey", "error"}
    BY <1>4, <1>r DEF ReadImage
  <2>2. Committed(v)'
    BY <1>c, <1>k, <2>1 DEF Committed
  <2> QED BY <1>s, <2>1, <2>2
<1>5. CASE ReadKey(v)
  <2>1. \/ verifier'[v].pc = "error"
        \/ /\ verifier'[v].pc = "detect" /\ Parses(keyF)
           /\ verifier'[v].img = verifier[v].img /\ verifier'[v].key = keyF.val
           /\ verifier[v].pc = "readKey"
    BY <1>5, <1>r DEF ReadKey
  <2>2. Committed(v)'
    BY <1>c, <1>k, <2>1 DEF Committed, KeyIsLast, Reading, Made
  <2> QED BY <1>s, <2>1, <2>2
<1>6. CASE DetectBackend(v)
  <2>1. /\ verifier[v].pc = "detect" /\ verifier'[v].pc = "open"
        /\ verifier'[v].img = verifier[v].img /\ verifier'[v].key = verifier[v].key
        /\ verifier'[v].kind = Detected(root)
    BY <1>6, <1>r DEF DetectBackend
  <2>2. Committed(v)'
    BY <1>c, <1>k, <2>1 DEF Committed
  <2> QED BY <1>s, <2>1, <2>2
<1>7. CASE OpenForVerify(v)
  <2>1. \/ verifier'[v].pc = "error"
        \/ /\ verifier'[v].pc = "resolve" /\ verifier[v].pc = "open"
           /\ verifier'[v].img = verifier[v].img /\ verifier'[v].key = verifier[v].key
           /\ verifier'[v].kind = verifier[v].kind
           /\ verifier'[v].idx = LoadedIndex(root, verifier[v].kind)
    BY <1>7, <1>r DEF OpenForVerify
  <2>2. Committed(v)'
    BY <1>c, <1>k, <2>1 DEF Committed
  <2> QED BY <1>s, <2>1, <2>2
<1>8. CASE Resolve(v)
  <2> DEFINE s == verifier[v]
             found == Finds(root, s.kind, s.idx, s.img)
  <2>1. PICK d \in VerdictsFor(s.img, s.key, s.profile, found) :
          verifier' = [verifier EXCEPT ![v].pc = "verdict", ![v].verdict = d]
    BY <1>8 DEF Resolve
  <2>2. /\ s.pc = "resolve" /\ verifier'[v].pc = "verdict" /\ verifier'[v].verdict = d
        /\ verifier'[v].img = s.img /\ verifier'[v].key = s.key
    BY <1>8, <1>r, <2>1 DEF Resolve
  <2>3. Committed(v)'
    BY <1>c, <1>k, <2>2 DEF Committed
  <2>4. ASSUME NEW r \in Runs, DOMAIN made = {r}
        PROVE  d \notin {"manifest_not_found", "no_valid_signatures"}
    <3>1. /\ signer.pc = "done" /\ run = r /\ s.img = r /\ s.key = r
          /\ s.kind = Detected(root) /\ s.idx = LoadedIndex(root, s.kind)
      BY <1>c, <2>2, <2>4 DEF Committed
    <3>2. {made[x].backend : x \in DOMAIN made} = {made[r].backend}
      BY <2>4
    <3>3. OneBackendSoFar
      BY <3>2, FS_Singleton DEF OneBackendSoFar
    <3>4. found = TRUE
      BY <3>1, <3>3, ReturnedIsFound DEF FreshFinds, Finds
    <3> HIDE DEF found
    <3> QED BY <2>1, <3>1, <3>4, FoundVerdict
  <2> QED BY <1>s, <2>2, <2>3, <2>4
<1> QED BY <1>3, <1>4, <1>5, <1>6, <1>7, <1>8 DEF VerifyStep

-----------------------------------------------------------------------------
(* The theorems                                                             *)

LEMMA SigningStep ==
  ASSUME Signing, SignStep \/ CrashSigner
  PROVE  Signing'
<1>1. CASE LoadAndEmbed /\ SignGoto("openImage")
  <2>1. signer.pc = "load" /\ UNCHANGED <<outputs, made>>
    BY <1>1 DEF LoadAndEmbed
  <2>2. signer'.pc = "openImage" /\ run' = run
    BY <1>1, SignGotoType DEF Signing, SignPCs, run
  <2>3. Progress'
    BY <2>1, <2>2 DEF Signing, Progress, outputs, BeforeBlob, PastImage, PastStore,
       PastBlob, PastIndex, PastMkey, PastUri, PastKey
  <2> QED BY <1>1, <2>1, <2>3, SignMoves DEF Signing, SignPCs, OutputsOK, Made, outputs
<1>2. CASE LoadAndEmbed /\ SignGoto("idle")
  BY <1>2, SignEnds DEF LoadAndEmbed
<1>3. CASE WriteImage \/ WriteManifestKey \/ WriteStorageUri \/ WriteKeyEnvelope
  BY <1>3, OutputSteps
<1>4. CASE OpenStore
  BY <1>4, OpenStoreStep
<1>5. CASE PutManifest
  BY <1>5, PutStep
<1>6. CASE CrashSigner
  BY <1>6, SignEnds DEF CrashSigner
<1> QED BY <1>1, <1>2, <1>3, <1>4, <1>5, <1>6 DEF SignStep, LoadAndEmbed

Inv ==
  /\ Signing /\ VerifiersOK /\ crashes \in 0..MaxCrashes
  /\ Readings /\ VerifiedIsOneRun
  /\ FirstRun /\ FirstRunCommits

LEMMA InvInit == Init => Inv
<1> SUFFICES ASSUME Init PROVE Inv
  OBVIOUS
<1>1. Signing /\ VerifiersOK
  BY InitSigning
<1>2. crashes \in 0..MaxCrashes
  BY CrashAssumption DEF Init
<1>3. \A v \in Verifiers : verifier[v].pc = "idle" /\ verifier[v].verdict = "none"
  BY DEF Init, NoRead
<1>4. Readings /\ VerifiedIsOneRun
  BY <1>3 DEF Readings, Reading, VerifiedIsOneRun
<1>5. DOMAIN made = {}
  BY DEF Init
<1>6. FirstRun /\ FirstRunCommits
  BY <1>5 DEF FirstRun, KeyIsLast, Committed, FirstRunCommits
<1> QED BY <1>1, <1>2, <1>4, <1>6 DEF Inv

\* Each kind of step keeps the invariant: a step of sign_and_embed or its
\* death, ...
LEMMA SignKeepsInv ==
  Inv /\ (\/ \E r \in Runs, b \in Backends, p \in Profiles : StartSign(r, b, p)
          \/ SignStep \/ CrashSigner) => Inv'
<1> SUFFICES ASSUME Inv, \/ \E r \in Runs, b \in Backends, p \in Profiles : StartSign(r, b, p)
                         \/ SignStep \/ CrashSigner
             PROVE  Inv'
  OBVIOUS
<1> USE DEF Inv
<1>1. Signing'
  BY StartSigning, SigningStep
<1>2. Keeps /\ verifier' = verifier
  BY SigningKeeps
<1>3. VerifiersOK'
  BY <1>2 DEF VerifiersOK
<1>4. Readings' /\ VerifiedIsOneRun'
  BY <1>2, KeptReadings DEF Signing
<1>5. FirstRun' /\ FirstRunCommits'
  BY <1>2, FirstRunSigning
<1>6. crashes' = crashes \/ (crashes < MaxCrashes /\ crashes' = crashes + 1)
  BY DEF StartSign, SignStep, LoadAndEmbed, WriteImage, OpenStore, PutManifest,
     WriteManifestKey, WriteStorageUri, WriteKeyEnvelope, CrashSigner
<1>7. crashes' \in 0..MaxCrashes
  BY <1>6, CrashAssumption
<1> QED BY <1>1, <1>3, <1>4, <1>5, <1>7

\* ... a step of verify, under any profile, ...
LEMMA VerifyKeepsInv ==
  \A v \in Verifiers :
    Inv /\ (\/ \E p \in Profiles \cup {"alpha_lsb"} : StartVerify(v, p)
            \/ VerifyStep(v)) => Inv'
<1> SUFFICES ASSUME Inv, NEW v \in Verifiers,
                    (\E p \in Profiles \cup {"alpha_lsb"} : StartVerify(v, p)) \/ VerifyStep(v)
             PROVE  Inv'
  OBVIOUS
<1> USE DEF Inv
<1>1. UNCHANGED <<outputs, signVars, crashes>>
  BY VerifyOnlyReads DEF StartVerify, Readings, Signing
<1>2. Signing' /\ crashes' \in 0..MaxCrashes
  BY <1>1 DEF Signing, OutputsOK, SignerOK, Made, Progress, outputs, signVars, run,
     backend
<1>3. VerifiersOK'
  BY VerifyTypes DEF Signing
<1>4. Readings' /\ VerifiedIsOneRun'
  BY ReadingStep
<1>5. FirstRun' /\ FirstRunCommits'
  BY FirstRunReading
<1> QED BY <1>2, <1>3, <1>4, <1>5

\* ... a step of something else, ...
LEMMA OthersKeepInv ==
  Inv /\ UNCHANGED <<outDir, imageF, mkeyF, uriF, keyF, root, signer, made, verifier>>
      /\ crashes' \in 0..MaxCrashes => Inv'
<1> SUFFICES ASSUME Inv, crashes' \in 0..MaxCrashes,
                    UNCHANGED <<outDir, imageF, mkeyF, uriF, keyF, root, signer, made, verifier>>
             PROVE  Inv'
  OBVIOUS
<1> USE DEF Inv
<1>1. run' = run /\ backend' = backend
  BY DEF run, backend
<1>2. Signing' /\ VerifiersOK'
  BY <1>1 DEF Signing, OutputsOK, SignerOK, Made, Progress, VerifiersOK
<1>3. Readings' /\ VerifiedIsOneRun'
  BY DEF Readings, Reading, VerifiedIsOneRun
<1>4. FirstRun'
  BY <1>1 DEF FirstRun, KeyIsLast, Committed
<1>5. FirstRunCommits'
  BY DEF FirstRunCommits
<1> QED BY <1>2, <1>3, <1>4, <1>5

\* ... and the death of a process that signs and verifies: a run that was not
\* done is over, and so is every verify.
LEMMA DeathKeepsInv ==
  Inv /\ UNCHANGED <<outDir, imageF, mkeyF, uriF, keyF, root, made>>
      /\ signer' = [signer EXCEPT !.pc = IF @ = "done" THEN "done" ELSE "idle"]
      /\ verifier' = [v \in Verifiers |-> NoRead]
      /\ crashes' \in 0..MaxCrashes => Inv'
<1> SUFFICES ASSUME Inv, UNCHANGED <<outDir, imageF, mkeyF, uriF, keyF, root, made>>,
                    signer' = [signer EXCEPT !.pc = IF @ = "done" THEN "done" ELSE "idle"],
                    verifier' = [v \in Verifiers |-> NoRead],
                    crashes' \in 0..MaxCrashes
             PROVE  Inv'
  OBVIOUS
<1> USE DEF Inv
<1>1. Signing'
  <2>1. CASE signer.pc = "done"
    <3>1. signer' = signer
      BY <2>1 DEF Signing, SignerOK
    <3>2. run' = run /\ backend' = backend
      BY <3>1 DEF run, backend
    <3> QED BY <3>1, <3>2 DEF Signing, OutputsOK, SignerOK, Made, Progress
  <2>2. CASE signer.pc # "done"
    <3>1. SignGoto("idle")
      BY <2>2 DEF SignGoto, Signing, SignerOK
    <3> QED BY <3>1, SignEnds DEF outputs
  <2> QED BY <2>1, <2>2
<1>2. \A v \in Verifiers : verifier'[v] = NoRead
  OBVIOUS
<1>3. NoRead.pc = "idle" /\ NoRead.verdict = "none" /\ NoRead \in VerifierStates
  BY DEF NoRead, VerifierStates, VerifyPCs, Verdicts, Kinds
<1>4. VerifiersOK' /\ Readings' /\ VerifiedIsOneRun' /\ FirstRunCommits'
  BY <1>2, <1>3 DEF VerifiersOK, Readings, Reading, VerifiedIsOneRun, FirstRunCommits
<1>5. KeyIsLast'
  BY DEF FirstRun, KeyIsLast, Signing, SignerOK
<1>6. FirstRun'
  BY <1>2, <1>3, <1>5 DEF FirstRun, Committed
<1> QED BY <1>1, <1>4, <1>6

LEMMA InvNext == Inv /\ [Next]_vars => Inv'
<1> SUFFICES ASSUME Inv, [Next]_vars PROVE Inv'
  OBVIOUS
<1>1. ASSUME NEW v \in Verifiers, NEW p \in Profiles, StartVerify(v, p)
      PROVE  Inv'
  BY <1>1, VerifyKeepsInv
<1>2. ASSUME NEW v \in Verifiers, VerifyStep(v)
      PROVE  Inv'
  BY <1>2, VerifyKeepsInv
<1>3. CASE UNCHANGED vars
  BY <1>3, OthersKeepInv DEF vars, outputs, signVars, Inv
<1> QED BY <1>1, <1>2, <1>3, SignKeepsInv DEF Next

\* What the invariant says of a directory that one run is for.
LEMMA OnlyRun ==
  \A r : Inv /\ Runs = {r} =>
    /\ TypeOK /\ FirstRunCommits
    /\ DOMAIN made \subseteq {r}
    /\ signer.pc # "idle" => signer.run = r /\ r \in DOMAIN made
    /\ Parses(keyF) => keyF.val = r /\ signer.pc = "done"
    /\ signer.pc = "done" => imageF = Whole(r) /\ keyF = Whole(r) /\ FreshFinds(root, r)
    /\ \A v \in Verifiers : verifier[v].pc \in {"resolve", "verdict"} =>
         r \in DOMAIN made /\ verifier[v].img = r
<1> SUFFICES ASSUME NEW r, Inv, Runs = {r}
             PROVE  /\ TypeOK
                    /\ DOMAIN made \subseteq {r}
                    /\ signer.pc # "idle" => signer.run = r /\ r \in DOMAIN made
                    /\ Parses(keyF) => keyF.val = r /\ signer.pc = "done"
                    /\ signer.pc = "done" =>
                         imageF = Whole(r) /\ keyF = Whole(r) /\ FreshFinds(root, r)
                    /\ \A v \in Verifiers : verifier[v].pc \in {"resolve", "verdict"} =>
                         r \in DOMAIN made /\ verifier[v].img = r
  BY DEF Inv
<1> USE DEF Inv, Signing
<1>1. TypeOK
  BY TypeParts
<1>2. DOMAIN made \subseteq {r}
  BY DEF SignerOK
<1>3. signer.pc # "idle" => signer.run = r /\ r \in DOMAIN made
  BY <1>2 DEF Made, run
<1>4. Parses(keyF) => keyF.val = r /\ signer.pc = "done"
  <2> SUFFICES ASSUME Parses(keyF) PROVE keyF.val = r /\ signer.pc = "done"
    OBVIOUS
  <2>1. keyF.val \in DOMAIN made
    BY DEF Made
  <2>2. keyF.val = r /\ DOMAIN made = {r}
    BY <1>2, <2>1
  <2> QED BY <2>2 DEF FirstRun, KeyIsLast
<1>5. signer.pc = "done" => imageF = Whole(r) /\ keyF = Whole(r) /\ FreshFinds(root, r)
  <2> SUFFICES ASSUME signer.pc = "done"
               PROVE  imageF = Whole(r) /\ keyF = Whole(r) /\ FreshFinds(root, r)
    OBVIOUS
  <2>1. DOMAIN made = {r} /\ run = r
    BY <1>2, <1>3 DEF run
  <2>2. {made[x].backend : x \in DOMAIN made} = {made[r].backend}
    BY <2>1
  <2>3. OneBackendSoFar
    BY <2>2, FS_Singleton DEF OneBackendSoFar
  <2> QED BY <2>1, <2>3, SigningVerifies DEF DoneRunVerifies
<1>6. \A v \in Verifiers : verifier[v].pc \in {"resolve", "verdict"} =>
        r \in DOMAIN made /\ verifier[v].img = r
  BY <1>2 DEF Readings, Reading
<1> QED BY <1>1, <1>2, <1>3, <1>4, <1>5, <1>6

LEMMA InvHolds == Spec => []Inv
  BY InvInit, InvNext, PTL DEF Spec

\* Files, store and readers stay what they are declared to be: in particular
\* a file is absent, torn or one run's whole text, and what verify took from
\* it names a run.
THEOREM TypeCorrect == Spec => []TypeOK
<1>1. Inv => TypeOK
  BY TypeParts DEF Inv, Signing
<1> QED BY <1>1, InvHolds, PTL

\* Once sign_and_embed has returned, its image, its key, its two references
\* and its manifest are there for a verify that starts then, after any
\* number of runs that failed or died in the same directory, provided they
\* all used one backend.
THEOREM ReturnedRunVerifies == Spec => []DoneRunVerifies
<1>1. Inv => DoneRunVerifies
  BY SigningVerifies DEF Inv
<1> QED BY <1>1, InvHolds, PTL

\* A "verified" verdict is about one run, read from image and key alike, whose
\* manifest is on disk in the backend that was detected, whatever runs
\* overwrote the files while verify was reading them.
THEOREM VerdictIsOneRun == Spec => []VerifiedIsOneRun
<1>1. Inv => VerifiedIsOneRun
  BY DEF Inv
<1> QED BY <1>1, InvHolds, PTL

\* key.json, written last, commits the first run: no interleaving and no
\* death lets a verify that read image and key miss its manifest or check it
\* under another key.
THEOREM KeyCommitsFirstRun == Spec => []FirstRunCommits
<1>1. Inv => FirstRunCommits
  BY DEF Inv
<1> QED BY <1>1, InvHolds, PTL
=============================================================================
