----------------------------- MODULE SignVerify -----------------------------
(***************************************************************************)
(* pipeline.sign_and_embed and pipeline.verify of openwater_mk over one    *)
(* sign-embed directory.  sign_and_embed signs with a key generated for    *)
(* the run and writes its outputs one file after the other; verify reads   *)
(* them one after the other.  Nothing orders the two but the files.        *)
(*                                                                         *)
(* A run stands for everything it produces: the marked image carries the   *)
(* locator of the run's manifest, manifest_key.txt and storage_uri.txt     *)
(* name that manifest, key.json holds the key that signed it.              *)
(***************************************************************************)
EXTENDS StoreLayout, FiniteSets, Naturals

CONSTANTS
  Runs,        \* runs of sign_and_embed into this directory, one at a time
  Backends,    \* the --storage values in use
  Profiles,    \* the --profile values in use
  Verifiers,   \* concurrent callers of verify
  MaxCrashes   \* bound on processes dying

ASSUME BackendsAssumption == Backends \subseteq Kinds
ASSUME ProfilesAssumption == Profiles \subseteq {"alpha_lsb", "dct_qim"}
ASSUME CrashAssumption    == MaxCrashes \in Nat

VARIABLES
  outDir,                       \* whether the directory exists
  imageF, mkeyF, uriF, keyF,    \* watermarked.png and the three text files
  root,                         \* manifests/, the store (module StoreLayout)
  signer,                       \* the run in progress: pc, run, _index
  made,                         \* run -> [backend, profile], once started
  verifier,                     \* what each caller of verify has read
  crashes

outputs == <<outDir, imageF, mkeyF, uriF, keyF, root>>
signVars == <<signer, made>>
vars == <<outputs, signVars, verifier, crashes>>

NoRun == "none"

SignPCs == {"idle", "load", "openImage", "writeImage", "openStore", "openBlob",
            "writeBlob", "openIndex", "writeIndex", "openMkey", "writeMkey",
            "openUri", "writeUri", "openKey", "writeKey", "done"}

Verdicts == {"none", "verified", "content_mismatch", "no_valid_signatures",
             "manifest_not_found", "no_locator"}

VerifyPCs == {"idle", "readImage", "readKey", "detect", "open", "resolve",
              "verdict", "error"}

NoRead == [pc |-> "idle", profile |-> "alpha_lsb", img |-> NoRun, key |-> NoRun,
           kind |-> "local", idx |-> {}, verdict |-> "none"]

TypeOK ==
  /\ outDir \in BOOLEAN
  /\ imageF \in FileOf(Runs) /\ mkeyF \in FileOf(Runs)
  /\ uriF \in FileOf(Runs) /\ keyF \in FileOf(Runs)
  /\ root \in Roots(Runs)
  /\ signer \in [pc : SignPCs, run : Runs \cup {NoRun}, idx : SUBSET Entries(Runs)]
  /\ DOMAIN made \subseteq Runs
  /\ \A r \in DOMAIN made : made[r] \in [backend : Backends, profile : Profiles]
  /\ verifier \in [Verifiers ->
       [pc : VerifyPCs, profile : Profiles \cup {"alpha_lsb"},
        img : Runs \cup {NoRun}, key : Runs \cup {NoRun}, kind : Kinds,
        idx : SUBSET Entries(Runs), verdict : Verdicts]]
  /\ crashes \in 0..MaxCrashes

Init ==
  /\ outDir = FALSE
  /\ imageF = Absent /\ mkeyF = Absent /\ uriF = Absent /\ keyF = Absent
  /\ root = EmptyRoot
  /\ signer = [pc |-> "idle", run |-> NoRun, idx |-> {}]
  /\ made = <<>>
  /\ verifier = [v \in Verifiers |-> NoRead]
  /\ crashes = 0

-----------------------------------------------------------------------------
(* sign_and_embed                                                           *)

SignGoto(l) == signer' = [signer EXCEPT !.pc = l]

run == signer.run
backend == made[run].backend

\* The directory is made before the input image is even decoded.
StartSign(r, b, p) ==
  /\ signer.pc \in {"idle", "done"}
  /\ r \notin DOMAIN made
  /\ outDir' = TRUE
  /\ signer' = [pc |-> "load", run |-> r, idx |-> {}]
  /\ made' = [x \in DOMAIN made \cup {r} |->
                IF x = r THEN [backend |-> b, profile |-> p] ELSE made[x]]
  /\ UNCHANGED <<imageF, mkeyF, uriF, keyF, root, verifier, crashes>>

\* _load_artifact, signing and embedding, all in memory; they may raise on
\* the input image, before any file is written.
LoadAndEmbed ==
  /\ signer.pc = "load"
  /\ SignGoto("openImage") \/ SignGoto("idle")
  /\ UNCHANGED <<outputs, made, verifier, crashes>>

WriteImage ==
  /\ \/ signer.pc = "openImage" /\ imageF' = Empty /\ SignGoto("writeImage")
     \/ signer.pc = "writeImage" /\ imageF' = Whole(run) /\ SignGoto("openStore")
  /\ UNCHANGED <<outDir, mkeyF, uriF, keyF, root, made, verifier, crashes>>

\* store_from_spec raises on a torn index.json.
OpenStore ==
  /\ signer.pc = "openStore"
  /\ \/ /\ Opens(root, backend)
        /\ root' = Opened(root, backend)
        /\ signer' = [signer EXCEPT !.pc = "openBlob",
                                    !.idx = LoadedIndex(root, backend)]
     \/ /\ ~Opens(root, backend)
        /\ SignGoto("idle")
        /\ UNCHANGED root
  /\ UNCHANGED <<outDir, imageF, mkeyF, uriF, keyF, made, verifier, crashes>>

\* Mutant of PutManifest: the index stays in memory.
PutUnindexed ==
  /\ \/ /\ signer.pc = "openBlob"
        /\ root' = BlobOpened(root, backend, run)
        /\ SignGoto("writeBlob")
     \/ /\ signer.pc = "writeBlob"
        /\ root' = BlobWritten(root, backend, run)
        /\ SignGoto("openMkey")
  /\ UNCHANGED <<outDir, imageF, mkeyF, uriF, keyF, made, verifier, crashes>>

\* put_bytes of the backend.
PutManifest ==
  /\ \/ /\ signer.pc = "openBlob"
        /\ root' = BlobOpened(root, backend, run)
        /\ SignGoto("writeBlob")
     \/ /\ signer.pc = "writeBlob"
        /\ root' = BlobWritten(root, backend, run)
        /\ IF HasIndex(backend)
           THEN signer' = [signer EXCEPT !.pc = "openIndex",
                                         !.idx = @ \cup {<<backend, run>>}]
           ELSE SignGoto("openMkey")
     \/ /\ signer.pc = "openIndex"
        /\ root' = [root EXCEPT !.index = Empty]
        /\ SignGoto("writeIndex")
     \/ /\ signer.pc = "writeIndex"
        /\ root' = [root EXCEPT !.index = Whole(signer.idx)]
        /\ SignGoto("openMkey")
  /\ UNCHANGED <<outDir, imageF, mkeyF, uriF, keyF, made, verifier, crashes>>

WriteManifestKey ==
  /\ \/ signer.pc = "openMkey" /\ mkeyF' = Empty /\ SignGoto("writeMkey")
     \/ signer.pc = "writeMkey" /\ mkeyF' = Whole(run) /\ SignGoto("openUri")
  /\ UNCHANGED <<outDir, imageF, uriF, keyF, root, made, verifier, crashes>>

WriteStorageUri ==
  /\ \/ signer.pc = "openUri" /\ uriF' = Empty /\ SignGoto("writeUri")
     \/ signer.pc = "writeUri" /\ uriF' = Whole(run) /\ SignGoto("openKey")
  /\ UNCHANGED <<outDir, imageF, mkeyF, keyF, root, made, verifier, crashes>>

\* Mutant of WriteKeyEnvelope: a key that is there already is kept.
KeepFirstKey ==
  /\ \/ /\ signer.pc = "openKey"
        /\ keyF' = IF Exists(keyF) THEN keyF ELSE Empty
        /\ SignGoto(IF Exists(keyF) THEN "done" ELSE "writeKey")
     \/ signer.pc = "writeKey" /\ keyF' = Whole(run) /\ SignGoto("done")
  /\ UNCHANGED <<outDir, imageF, mkeyF, uriF, root, made, verifier, crashes>>

WriteKeyEnvelope ==
  /\ \/ signer.pc = "openKey" /\ keyF' = Empty /\ SignGoto("writeKey")
     \/ signer.pc = "writeKey" /\ keyF' = Whole(run) /\ SignGoto("done")
  /\ UNCHANGED <<outDir, imageF, mkeyF, uriF, root, made, verifier, crashes>>

SignStep ==
  \/ LoadAndEmbed \/ WriteImage \/ OpenStore \/ PutManifest
  \/ WriteManifestKey \/ WriteStorageUri \/ WriteKeyEnvelope

-----------------------------------------------------------------------------
(* verify                                                                   *)

Advance(v, l) == verifier' = [verifier EXCEPT ![v].pc = l]

StartVerify(v, profile) ==
  /\ verifier[v].pc \in {"idle", "verdict", "error"}
  /\ verifier' = [verifier EXCEPT ![v] =
                    [NoRead EXCEPT !.pc = "readImage", !.profile = profile]]
  /\ UNCHANGED <<outputs, signVars, crashes>>

\* A file that is missing or torn raises out of verify.
ReadImage(v) ==
  /\ verifier[v].pc = "readImage"
  /\ verifier' = [verifier EXCEPT ![v] =
       IF Parses(imageF) THEN [@ EXCEPT !.pc = "readKey", !.img = imageF.val]
       ELSE [@ EXCEPT !.pc = "error"]]
  /\ UNCHANGED <<outputs, signVars, crashes>>

ReadKey(v) ==
  /\ verifier[v].pc = "readKey"
  /\ verifier' = [verifier EXCEPT ![v] =
       IF Parses(keyF) THEN [@ EXCEPT !.pc = "detect", !.key = keyF.val]
       ELSE [@ EXCEPT !.pc = "error"]]
  /\ UNCHANGED <<outputs, signVars, crashes>>

\* The backend is detected from what index.json and the subdirectories look
\* like, and then opened.
DetectBackend(v) ==
  /\ verifier[v].pc = "detect"
  /\ verifier' = [verifier EXCEPT ![v].pc = "open", ![v].kind = Detected(root)]
  /\ UNCHANGED <<outputs, signVars, crashes>>

OpenForVerify(v) ==
  LET kind == verifier[v].kind IN
  /\ verifier[v].pc = "open"
  /\ root' = IF Opens(root, kind) THEN Opened(root, kind) ELSE root
  /\ verifier' = [verifier EXCEPT ![v] =
       IF Opens(root, kind)
       THEN [@ EXCEPT !.pc = "resolve", !.idx = LoadedIndex(root, kind)]
       ELSE [@ EXCEPT !.pc = "error"]]
  /\ UNCHANGED <<outDir, imageF, mkeyF, uriF, keyF, signVars, crashes>>

\* Mutant of VerdictsFor: any key that signs well will do.
VerdictsForAnyKey(img, key, profile, found) ==
  IF made[img].profile # profile THEN {"no_locator"}
  ELSE {IF ~found THEN "manifest_not_found"
        ELSE IF profile # "alpha_lsb" THEN "content_mismatch"
        ELSE "verified"}

\* Extraction, resolution, signature, essence and trust, in that order.  A
\* carrier of another profile yields no locator; a dct_qim carrier may be
\* lost, and changes the pixels the manifest commits to.
VerdictsFor(img, key, profile, found) ==
  IF made[img].profile # profile THEN {"no_locator"}
  ELSE LET resolved ==
             IF ~found THEN "manifest_not_found"
             ELSE IF key # img THEN "no_valid_signatures"
             ELSE IF profile # "alpha_lsb" THEN "content_mismatch"
             ELSE "verified"
       IN IF profile = "alpha_lsb" THEN {resolved} ELSE {resolved, "no_locator"}

Resolve(v) ==
  LET s == verifier[v] IN
  /\ s.pc = "resolve"
  /\ \E d \in VerdictsFor(s.img, s.key, s.profile,
                          Finds(root, s.kind, s.idx, s.img)) :
       verifier' = [verifier EXCEPT ![v].pc = "verdict", ![v].verdict = d]
  /\ UNCHANGED <<outputs, signVars, crashes>>

VerifyStep(v) ==
  \/ ReadImage(v) \/ ReadKey(v) \/ DetectBackend(v) \/ OpenForVerify(v)
  \/ Resolve(v)

-----------------------------------------------------------------------------

\* The signing process dies wherever it is; its files stay as they are.
CrashSigner ==
  /\ signer.pc \notin {"idle", "done"}
  /\ crashes < MaxCrashes
  /\ crashes' = crashes + 1
  /\ SignGoto("idle")
  /\ UNCHANGED <<outputs, made, verifier>>

Next ==
  \/ \E r \in Runs, b \in Backends, p \in Profiles : StartSign(r, b, p)
  \/ SignStep
  \/ \E v \in Verifiers : (\E p \in Profiles : StartVerify(v, p)) \/ VerifyStep(v)
  \/ CrashSigner

Spec == Init /\ [][Next]_vars

-----------------------------------------------------------------------------
(* Properties                                                               *)

OneBackendSoFar == Cardinality({made[r].backend : r \in DOMAIN made}) = 1

\* When sign_and_embed returns, what it left verifies: a verify that starts
\* then finds image, key and, through the detected backend, the manifest.
\* Earlier runs into the same directory, failed or crashed, do not matter,
\* as long as they used the same backend.
DoneRunVerifies ==
  signer.pc = "done" /\ OneBackendSoFar =>
    /\ imageF = Whole(run) /\ keyF = Whole(run)
    /\ mkeyF = Whole(run) /\ uriF = Whole(run)
    /\ FreshFinds(root, run)

\* key.json is the commit point of a first run: whoever has read image and
\* key of the only run there ever was finds its manifest, however the reads
\* and the run interleave and wherever the run dies.
FirstRunCommits ==
  \A v \in Verifiers :
    LET s == verifier[v] IN
    (\E r \in Runs : DOMAIN made = {r}) /\ s.pc = "verdict" =>
      s.verdict \notin {"manifest_not_found", "no_valid_signatures"}

\* A positive verdict is never assembled from two runs, and its manifest is
\* on disk, whatever was overwritten while verify was reading.
VerifiedIsOneRun ==
  \A v \in Verifiers :
    LET s == verifier[v] IN
    s.verdict = "verified" =>
      s.img = s.key /\ <<s.kind, s.img>> \in root.blobs
        /\ made[s.img] = [backend |-> s.kind, profile |-> "alpha_lsb"]
=============================================================================
