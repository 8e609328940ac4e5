-------------------------- MODULE JobService_proofs --------------------------
(***************************************************************************)
(* One job of the web service, for any sets of threads, requests, backends *)
(* and profiles and any bounds: type correctness, AlphaReportsVerified and *)
(* AnchoredJobComplete.  The proof composes what is proved of the two      *)
(* components (modules SignVerify_proofs and AnchorDir_proofs) and adds    *)
(* where profiles, verdicts and operator keys travel between them.         *)
(***************************************************************************)
EXTENDS JobService, TLAPS, FiniteSetTheorems

JobP    == INSTANCE SignVerify_proofs
AnchorP == INSTANCE AnchorDir_proofs

\* What the two components assume of their constants holds here.
LEMMA ComponentAssumptions ==
  /\ Backends \subseteq JobP!Kinds /\ Profiles \subseteq {"alpha_lsb", "dct_qim"}
  /\ MaxCrashes \in Nat
  /\ Threads \in Nat /\ MaxTime \in Nat /\ Requests \cap Getters = {}
  BY BackendsAssumption, ProfilesAssumption, BoundsAssumption, ProcsAssumption
     DEF Job!Kinds, JobP!Kinds

\* The job directory holds one run.
LEMMA OneRun == Runs = {theRun}
<1>1. PICK r \in Runs : Runs = {r}
  BY OneRunAssumption
<1>2. theRun \in Runs
  BY <1>1 DEF theRun
<1> QED BY <1>1, <1>2

-----------------------------------------------------------------------------
(* JobService takes its components from SignVerify and AnchorDir, the       *)
(* lemmas are about SignVerify_proofs and AnchorDir_proofs, which extend    *)
(* them: the same definitions under two names.                              *)

LEMMA SameStart ==
  \A r \in Runs, b \in Backends, p \in Profiles :
    Job!StartSign(r, b, p) => JobP!StartSign(r, b, p)
  BY DEF Job!StartSign, JobP!StartSign

LEMMA SameSign ==Job!SignStep => JobP!SignStep
  BY DEF Job!SignStep, JobP!SignStep, Job!LoadAndEmbed, JobP!LoadAndEmbed,
         Job!WriteImage, JobP!WriteImage, Job!OpenStore, JobP!OpenStore,
         Job!PutManifest, JobP!PutManifest, Job!WriteManifestKey,
         JobP!WriteManifestKey, Job!WriteStorageUri, JobP!WriteStorageUri,
         Job!WriteKeyEnvelope, JobP!WriteKeyEnvelope, Job!SignGoto,
         JobP!SignGoto, Job!run, JobP!run, Job!backend, JobP!backend,
         Job!outputs, JobP!outputs, Job!Opens, JobP!Opens, Job!Opened,
         JobP!Opened, Job!LoadedIndex, JobP!LoadedIndex, Job!HasIndex,
         JobP!HasIndex, Job!DirsOf, JobP!DirsOf, Job!BlobOpened,
         JobP!BlobOpened, Job!BlobWritten, JobP!BlobWritten, Job!Exists,
         JobP!Exists, Job!Parses, JobP!Parses, Job!Empty, JobP!Empty,
         Job!Whole, JobP!Whole

LEMMA SameStartVerify ==
  \A v \in Verifiers : \A p :
    Job!StartVerify(v, p) => JobP!StartVerify(v, p)
  BY DEF Job!StartVerify, JobP!StartVerify, Job!NoRead, JobP!NoRead,
         Job!outputs, JobP!outputs, Job!signVars, JobP!signVars, Job!NoRun,
         JobP!NoRun

LEMMA SameVerify ==\A v \in Verifiers : Job!VerifyStep(v) => JobP!VerifyStep(v)
  BY DEF Job!VerifyStep, JobP!VerifyStep, Job!ReadImage, JobP!ReadImage,
         Job!ReadKey, JobP!ReadKey, Job!DetectBackend, JobP!DetectBackend,
         Job!OpenForVerify, JobP!OpenForVerify, Job!Resolve, JobP!Resolve,
         Job!Parses, JobP!Parses, Job!Exists, JobP!Exists, Job!outputs,
         JobP!outputs, Job!signVars, JobP!signVars, Job!Detected,
         JobP!Detected, Job!Opens, JobP!Opens, Job!Opened, JobP!Opened,
         Job!LoadedIndex, JobP!LoadedIndex, Job!HasIndex, JobP!HasIndex,
         Job!DirsOf, JobP!DirsOf, Job!VerdictsFor, JobP!VerdictsFor,
         Job!Finds, JobP!Finds

LEMMA SameJobInit ==Job!Init => JobP!Init
  BY DEF Job!Init, JobP!Init, Job!NoRead, JobP!NoRead, Job!NoRun, JobP!NoRun,
         Job!EmptyRoot, JobP!EmptyRoot, Job!Absent, JobP!Absent

LEMMA SameJobTypes ==JobP!TypeOK => Job!TypeOK
  BY DEF Job!TypeOK, JobP!TypeOK, Job!FileOf, JobP!FileOf, Job!Absent,
         JobP!Absent, Job!Empty, JobP!Empty, Job!Garbled, JobP!Garbled,
         Job!Roots, JobP!Roots, Job!Entries, JobP!Entries, Job!Kinds,
         JobP!Kinds, Job!SignPCs, JobP!SignPCs, Job!VerifyPCs, JobP!VerifyPCs,
         Job!Verdicts, JobP!Verdicts, Job!NoRun, JobP!NoRun

LEMMA SameFreshFinds ==\A r : JobP!FreshFinds(root, r) => Job!FreshFinds(root, r)
  BY DEF Job!FreshFinds, JobP!FreshFinds, Job!Detected, JobP!Detected,
         Job!Opens, JobP!Opens, Job!Finds, JobP!Finds, Job!LoadedIndex,
         JobP!LoadedIndex, Job!HasIndex, JobP!HasIndex, Job!Exists,
         JobP!Exists, Job!Parses, JobP!Parses

LEMMA SamePost == \A q \in Requests : Anchor!Post(q) => AnchorP!Post(q)
<1> TAKE q \in Requests
<1>1. Anchor!PostAnchor(q) => AnchorP!PostAnchor(q)
  BY DEF Anchor!PostAnchor, AnchorP!PostAnchor, Anchor!Active, AnchorP!Active,
         Anchor!Goto, AnchorP!Goto, Anchor!signVars, AnchorP!signVars,
         Anchor!Cardinality, AnchorP!Cardinality
<1>2. /\ Anchor!ReadManifestKey(q) => AnchorP!ReadManifestKey(q)
      /\ Anchor!ReadStorageUri(q) => AnchorP!ReadStorageUri(q)
      /\ Anchor!ReadKeyEnvelope(q) => AnchorP!ReadKeyEnvelope(q)
  BY DEF Anchor!ReadManifestKey, AnchorP!ReadManifestKey,
         Anchor!ReadStorageUri, AnchorP!ReadStorageUri,
         Anchor!ReadKeyEnvelope, AnchorP!ReadKeyEnvelope, Anchor!RunIn,
         AnchorP!RunIn, Anchor!Parses, AnchorP!Parses, Anchor!Exists,
         AnchorP!Exists, Anchor!Fail, AnchorP!Fail, Anchor!Goto, AnchorP!Goto,
         Anchor!signVars, AnchorP!signVars, Anchor!dirVars, AnchorP!dirVars,
         Anchor!NoRun, AnchorP!NoRun
<1>3. Anchor!LoadForSubmit(q) => AnchorP!LoadForSubmit(q)
  BY DEF Anchor!LoadForSubmit, AnchorP!LoadForSubmit, Anchor!NextSlot,
         AnchorP!NextSlot, Anchor!Parses, AnchorP!Parses, Anchor!Fail,
         AnchorP!Fail, Anchor!Goto, AnchorP!Goto, Anchor!signVars,
         AnchorP!signVars, Anchor!dirVars, AnchorP!dirVars
<1>4. /\ Anchor!OpenLedger(q) => AnchorP!OpenLedger(q)
      /\ Anchor!SaveLedger(q) => AnchorP!SaveLedger(q)
  BY DEF Anchor!OpenLedger, AnchorP!OpenLedger, Anchor!SaveLedger,
         AnchorP!SaveLedger, Anchor!LongerThan, AnchorP!LongerThan,
         Anchor!Landing, AnchorP!Landing, Anchor!Parses, AnchorP!Parses,
         Anchor!Empty, AnchorP!Empty, Anchor!Whole, AnchorP!Whole,
         Anchor!Garbled, AnchorP!Garbled, Anchor!Goto, AnchorP!Goto,
         Anchor!signVars, AnchorP!signVars
<1>5. /\ Anchor!WriteAnchorRecord(q) => AnchorP!WriteAnchorRecord(q)
      /\ Anchor!WriteReceipt(q) => AnchorP!WriteReceipt(q)
      /\ Anchor!WriteMetadata(q) => AnchorP!WriteMetadata(q)
  BY DEF Anchor!WriteAnchorRecord, AnchorP!WriteAnchorRecord,
         Anchor!WriteReceipt, AnchorP!WriteReceipt, Anchor!WriteMetadata,
         AnchorP!WriteMetadata, Anchor!Receipt, AnchorP!Receipt,
         Anchor!Submitted, AnchorP!Submitted, Anchor!Landing, AnchorP!Landing,
         Anchor!Empty, AnchorP!Empty, Anchor!Whole, AnchorP!Whole,
         Anchor!Garbled, AnchorP!Garbled, Anchor!Goto, AnchorP!Goto,
         Anchor!signVars, AnchorP!signVars
<1> QED BY <1>1, <1>2, <1>3, <1>4, <1>5 DEF Anchor!Post, AnchorP!Post

LEMMA SameGet == \A g \in Getters : Anchor!Get(g) => AnchorP!Get(g)
  BY DEF Anchor!Get, AnchorP!Get, Anchor!GetAnchor, AnchorP!GetAnchor,
         Anchor!ReadAnchorRecord, AnchorP!ReadAnchorRecord,
         Anchor!ReadReceipt, AnchorP!ReadReceipt, Anchor!FetchTransaction,
         AnchorP!FetchTransaction, Anchor!VerifyAgainstTip,
         AnchorP!VerifyAgainstTip, Anchor!ShowFile, AnchorP!ShowFile,
         Anchor!NoAnswer, AnchorP!NoAnswer, Anchor!NoView, AnchorP!NoView,
         Anchor!Goto, AnchorP!Goto, Anchor!TxNamed, AnchorP!TxNamed,
         Anchor!AnchorOk, AnchorP!AnchorOk, Anchor!Confirmations,
         AnchorP!Confirmations, Anchor!MinConfirmations,
         AnchorP!MinConfirmations, Anchor!Parses, AnchorP!Parses,
         Anchor!signVars, AnchorP!signVars, Anchor!dirVars, AnchorP!dirVars

LEMMA SameProbe ==
  \A p \in Requests \cup Getters :
    Anchor!ProbeLedger(p) \/ Anchor!CreateLedger(p) \/ Anchor!WriteEmptyLedger(p)
      => AnchorP!ProbeLedger(p) \/ AnchorP!CreateLedger(p) \/ AnchorP!WriteEmptyLedger(p)
  BY DEF Anchor!ProbeLedger, AnchorP!ProbeLedger, Anchor!CreateLedger,
         AnchorP!CreateLedger, Anchor!WriteEmptyLedger,
         AnchorP!WriteEmptyLedger, Anchor!AfterInit, AnchorP!AfterInit,
         Anchor!Goto, AnchorP!Goto, Anchor!Landing, AnchorP!Landing,
         Anchor!Exists, AnchorP!Exists, Anchor!Empty, AnchorP!Empty,
         Anchor!Whole, AnchorP!Whole, Anchor!Garbled, AnchorP!Garbled,
         Anchor!signVars, AnchorP!signVars, Anchor!dirVars, AnchorP!dirVars

LEMMA SameCrash == Anchor!Crash => AnchorP!Crash
  BY DEF Anchor!Crash, AnchorP!Crash, Anchor!Procs, AnchorP!Procs,
         Anchor!NoView, AnchorP!NoView, Anchor!signVars, AnchorP!signVars,
         Anchor!dirVars, AnchorP!dirVars

LEMMA SameObserve == Anchor!Observe => AnchorP!Observe
  BY DEF Anchor!Observe, AnchorP!Observe, Anchor!Parses, AnchorP!Parses

LEMMA SameInitDir == Anchor!InitDir => AnchorP!InitDir
  BY DEF Anchor!InitDir, AnchorP!InitDir, Anchor!Procs, AnchorP!Procs,
         Anchor!Blank, AnchorP!Blank, Anchor!NoRun, AnchorP!NoRun,
         Anchor!NoView, AnchorP!NoView, Anchor!Absent, AnchorP!Absent

LEMMA SameAnchorTypes == AnchorP!TypeOK => Anchor!TypeOK
  BY DEF Anchor!TypeOK, AnchorP!TypeOK, Anchor!FileOf, AnchorP!FileOf,
         Anchor!Absent, AnchorP!Absent, Anchor!Empty, AnchorP!Empty,
         Anchor!Garbled, AnchorP!Garbled, Anchor!Txs, AnchorP!Txs,
         Anchor!Records, AnchorP!Records, Anchor!Receipts, AnchorP!Receipts,
         Anchor!Views, AnchorP!Views, Anchor!Procs, AnchorP!Procs,
         Anchor!PostPCs, AnchorP!PostPCs, Anchor!GetPCs, AnchorP!GetPCs,
         Anchor!NoRun, AnchorP!NoRun

-----------------------------------------------------------------------------
(* The invariant.  A kept report is right because a verdict is, and a       *)
(* verdict is right because verify ran under the job's profile or under     *)
(* alpha_lsb, and because the run had committed when verify got to its key. *)
(* A transaction in the ledger names the run, and once there is one the run *)
(* has returned: nobody reads an operator key before.                       *)

JobIs(profile) == theRun \in DOMAIN made /\ made[theRun].profile = profile

ProfileOK ==
  /\ web \in WebPCs /\ profileF \in FileOf(Profiles)
  /\ web \in {"openProfile", "writeProfile"} => signer.pc = "done"
  /\ Parses(profileF) => JobIs(profileF.val)

ServingOK ==
  /\ serving \in [Verifiers -> [pc : ServingPCs, ask : Endpoints]]
  /\ \A v \in Verifiers :
       serving[v].pc \in {"openReport", "writeReport"} => verifier[v].pc = "verdict"

VerdictsRight ==
  \A v \in Verifiers :
    /\ verifier[v].profile = "alpha_lsb" \/ JobIs(verifier[v].profile)
    /\ verifier[v].pc = "verdict" /\ JobIs("alpha_lsb") => verifier[v].verdict = "verified"

ReportOK ==
  /\ reportF \in FileOf(Reports)
  /\ Parses(reportF) =>
       JobSigned /\ (JobIs("alpha_lsb") => reportF.val.verdict = "verified")

KeysFollow ==
  /\ signer.pc = "done" => AnchorP!KidsFrom({theRun})
  /\ signer.pc # "done" => AnchorP!KidsFrom({})

Files == ProfileOK /\ ServingOK /\ ReportOK /\ sent \subseteq Requests \cup Getters

Inv == JobP!Inv /\ AnchorP!Typed /\ KeysFollow /\ VerdictsRight /\ Files

\* What the sign-embed directory says of the run.
RunFacts ==
  /\ JobP!TypeOK /\ JobP!FirstRunCommits
  /\ DOMAIN made \subseteq {theRun}
  /\ signer.pc # "idle" => signer.run = theRun /\ theRun \in DOMAIN made
  /\ Parses(keyF) => keyF.val = theRun /\ signer.pc = "done"
  /\ signer.pc = "done" =>
       imageF = Whole(theRun) /\ keyF = Whole(theRun) /\ JobP!FreshFinds(root, theRun)
  /\ \A v \in Verifiers : verifier[v].pc \in {"resolve", "verdict"} =>
       theRun \in DOMAIN made /\ verifier[v].img = theRun

LEMMA RunKnown == JobP!Inv => RunFacts
<1> SUFFICES ASSUME JobP!Inv PROVE RunFacts
  OBVIOUS
<1> DEFINE r == theRun
<1>1. Runs = {r}
  BY OneRun
<1> HIDE DEF r
<1>2. /\ JobP!TypeOK /\ JobP!FirstRunCommits
      /\ DOMAIN made \subseteq {r}
      /\ signer.pc # "idle" => signer.run = r /\ r \in DOMAIN made
      /\ JobP!Parses(keyF) => keyF.val = r /\ signer.pc = "done"
      /\ signer.pc = "done" =>
           imageF = JobP!Whole(r) /\ keyF = JobP!Whole(r) /\ JobP!FreshFinds(root, r)
      /\ \A v \in Verifiers : verifier[v].pc \in {"resolve", "verdict"} =>
           r \in DOMAIN made /\ verifier[v].img = r
  BY <1>1, JobP!OnlyRun, ComponentAssumptions
<1> QED BY <1>2 DEF r, RunFacts, Parses, Whole, JobP!Parses, JobP!Whole

LEMMA RunKnownNext == JobP!Inv' => RunFacts'
  BY RunKnown, PTL

\* A file is the same under either component's name.
LEMMA SameFiles ==
  \A V : AnchorP!FileOf(V) = FileOf(V) /\ JobP!FileOf(V) = FileOf(V)
  BY DEF FileOf, JobP!FileOf, AnchorP!FileOf, Absent, Empty, Garbled, JobP!Absent,
     JobP!Empty, JobP!Garbled, AnchorP!Absent, AnchorP!Empty, AnchorP!Garbled

-----------------------------------------------------------------------------
(* Steps, by what they leave alone                                          *)

\* Both components rest.
LEMMA Resting ==
  ASSUME Inv, UNCHANGED <<jobVars, anchorVars, crashes>>
  PROVE  JobP!Inv' /\ AnchorP!Typed' /\ KeysFollow' /\ VerdictsRight'
<1> USE DEF Inv, jobVars, signJobVars, anchorVars
<1>1. JobP!TypeOK /\ RunFacts
  BY RunKnown DEF RunFacts
<1>2. crashes' \in 0..MaxCrashes
  BY <1>1 DEF JobP!TypeOK
<1>3. JobP!Inv'
  BY <1>2, JobP!OthersKeepInv, ComponentAssumptions
<1>4. AnchorP!Typed'
  BY <1>1, <1>2, SameFiles, AnchorP!TypedElsewhere, ComponentAssumptions
     DEF JobP!TypeOK, AnchorP!dirVars
<1>5. KeysFollow'
  BY AnchorP!KidsElsewhere, ComponentAssumptions DEF KeysFollow, AnchorP!dirVars
<1>6. VerdictsRight'
  BY DEF VerdictsRight, JobIs
<1> QED BY <1>3, <1>4, <1>5, <1>6

\* The anchor directory rests while the run or a verify takes a step that
\* keeps the invariant of SignVerify and does not undo the run.
LEMMA AnchorRests ==
  ASSUME Inv, JobP!Inv', UNCHANGED anchorVars, signer.pc = "done" => signer'.pc = "done"
  PROVE  AnchorP!Typed' /\ KeysFollow'
<1> USE DEF Inv, anchorVars
<1>1. RunFacts'
  BY RunKnownNext
<1>2. mkeyF' \in FileOf(Runs) /\ uriF' \in FileOf(Runs) /\ keyF' \in FileOf(Runs)
      /\ crashes' \in 0..MaxCrashes
  BY <1>1, SameFiles DEF RunFacts, JobP!TypeOK
<1>3. AnchorP!Typed'
  BY <1>2, SameFiles, AnchorP!TypedElsewhere, ComponentAssumptions
     DEF AnchorP!dirVars
<1>4. KeysFollow'
  BY AnchorP!KidsElsewhere, ComponentAssumptions DEF KeysFollow, AnchorP!dirVars
<1> QED BY <1>3, <1>4

-----------------------------------------------------------------------------
(* POST /sign-embed                                                         *)

LEMMA NewJobStep ==
  ASSUME Inv, NewJob
  PROVE  Inv'
<1>1. JobP!Inv' /\ AnchorP!Typed' /\ KeysFollow' /\ VerdictsRight'
  BY Resting DEF NewJob
<1>2. Files'
  BY DEF NewJob, Inv, Files, ProfileOK, ServingOK, ReportOK, JobIs, JobSigned, WebPCs,
     jobVars, signJobVars, reportVars
<1> QED BY <1>1, <1>2 DEF Inv

\* The run starts once: there is no verdict, profile or report before it.
LEMMA StartSigningStep ==
  ASSUME Inv, NEW r \in Runs, NEW b \in Backends, NEW p \in Profiles,
         StartSigning(r, b, p)
  PROVE  Inv'
<1> USE DEF Inv
<1>1. JobP!StartSign(r, b, p)
  BY SameStart DEF StartSigning
<1>2. JobP!Inv'
  BY <1>1, JobP!SignKeepsInv, ComponentAssumptions
<1>3. RunFacts /\ r = theRun
  BY RunKnown, OneRun
<1>4. theRun \notin DOMAIN made /\ signer.pc # "done" /\ verifier' = verifier
  BY <1>1, <1>3 DEF JobP!StartSign, RunFacts
<1>5. AnchorP!Typed' /\ KeysFollow'
  BY <1>2, <1>4, AnchorRests DEF StartSigning
<1>6. VerdictsRight'
  BY <1>3, <1>4 DEF VerdictsRight, JobIs, RunFacts
<1>7. Files'
  BY <1>4 DEF StartSigning, Files, ProfileOK, ServingOK, ReportOK, JobIs, JobSigned,
     WebPCs, reportVars
<1> QED BY <1>2, <1>5, <1>6, <1>7

LEMMA SignStepKeeps ==
  ASSUME Inv, Sign
  PROVE  Inv'
<1> USE DEF Inv
<1>1. JobP!SignStep
  BY SameSign DEF Sign
<1>2. JobP!Inv'
  BY <1>1, JobP!SignKeepsInv, ComponentAssumptions
<1>3. signer.pc # "done" /\ verifier' = verifier /\ made' = made
  BY <1>1 DEF JobP!SignStep, JobP!LoadAndEmbed, JobP!WriteImage, JobP!OpenStore,
     JobP!PutManifest, JobP!WriteManifestKey, JobP!WriteStorageUri,
     JobP!WriteKeyEnvelope
<1>4. AnchorP!Typed' /\ KeysFollow'
  BY <1>2, <1>3, AnchorRests DEF Sign
<1>5. VerdictsRight'
  BY <1>3 DEF VerdictsRight, JobIs
<1>6. Files'
  BY <1>3 DEF Sign, Files, ProfileOK, ServingOK, ReportOK, JobIs, JobSigned,
     WebPCs, reportVars
<1> QED BY <1>2, <1>4, <1>5, <1>6

\* profile.txt names the profile of the run that has just returned.
LEMMA WriteProfileStep ==
  ASSUME Inv, WriteProfile
  PROVE  Inv'
<1> USE DEF Inv
<1>1. JobP!Inv' /\ AnchorP!Typed' /\ KeysFollow' /\ VerdictsRight'
  BY Resting DEF WriteProfile
<1>2. RunFacts
  BY RunKnown
<1>3. signer.pc = "done" /\ signer.run = theRun /\ theRun \in DOMAIN made
  BY <1>2 DEF WriteProfile, Files, ProfileOK, RunFacts
<1>4. made[theRun].profile \in Profiles
  BY <1>2, <1>3 DEF RunFacts, JobP!TypeOK
<1>5. web' \in {"writeProfile", "responded"} /\ UNCHANGED <<signer, made>>
      /\ profileF' \in {Empty, Whole(made[theRun].profile)}
  BY <1>3 DEF WriteProfile, jobVars, signJobVars
<1>6. ProfileOK'
  BY <1>3, <1>4, <1>5
     DEF ProfileOK, JobIs, WebPCs, FileOf, Empty, Whole, Parses
<1>7. Files'
  BY <1>6 DEF WriteProfile, Files, ServingOK, ReportOK, JobIs, JobSigned,
     jobVars, signJobVars, reportVars
<1> QED BY <1>1, <1>7

-----------------------------------------------------------------------------
(* Verify and report requests                                               *)

\* The steps that only choose what a request does next.
LEMMA ServeStep ==
  ASSUME Inv, NEW v \in Verifiers,
         (\E ask \in Endpoints : Request(v, ask)) \/ LookupReport(v) \/ ReadReport(v)
  PROVE  Inv'
<1> USE DEF Inv
<1>1. UNCHANGED <<jobVars, anchorVars, crashes, webVars, reportF, sent>>
  BY DEF Request, LookupReport, ReadReport
<1>2. JobP!Inv' /\ AnchorP!Typed' /\ KeysFollow' /\ VerdictsRight'
  BY <1>1, Resting
<1>3. /\ serving' \in [Verifiers -> [pc : ServingPCs, ask : Endpoints]]
      /\ \A w \in Verifiers : serving'[w].pc \in {"openReport", "writeReport"} =>
                                serving[w].pc = serving'[w].pc
  BY DEF Request, LookupReport, ReadReport, ServeGoto, Files, ServingOK, ServingPCs,
     Endpoints
<1>4. Files'
  BY <1>1, <1>3 DEF Files, ProfileOK, ServingOK, ReportOK, JobIs, JobSigned, jobVars,
     signJobVars, webVars
<1> QED BY <1>2, <1>4

\* What verify is told to look for: the job's profile, or alpha_lsb.
LEMMA ProfileKnown ==
  ASSUME Inv
  PROVE  /\ JobProfile \in Profiles \cup {"alpha_lsb"}
         /\ JobProfile = "alpha_lsb" \/ JobIs(JobProfile)
  BY DEF Inv, Files, ProfileOK, JobProfile, WebDefaultProfile, FileOf, Parses, Absent,
     Empty, Garbled

LEMMA VerifySelfKeeps ==
  ASSUME Inv, NEW v \in Verifiers, VerifySelf(v)
  PROVE  Inv'
<1> USE DEF Inv
<1> DEFINE p == JobProfile
<1>1. JobP!StartVerify(v, p) /\ p \in Profiles \cup {"alpha_lsb"}
      /\ (p = "alpha_lsb" \/ JobIs(p))
  BY SameStartVerify, ProfileKnown DEF VerifySelf
<1> HIDE DEF p
<1>2. JobP!Inv'
  BY <1>1, JobP!VerifyKeepsInv, ComponentAssumptions
<1>3. UNCHANGED <<signer, made>>
      /\ verifier' = [verifier EXCEPT ![v] =
           [JobP!NoRead EXCEPT !.pc = "readImage", !.profile = p]]
  BY <1>1 DEF JobP!StartVerify, JobP!signVars
<1>4. verifier \in [Verifiers -> JobP!VerifierStates]
  BY DEF JobP!Inv, JobP!VerifiersOK
<1>5. /\ verifier'[v].pc = "readImage" /\ verifier'[v].profile = p
      /\ \A w \in Verifiers : w # v => verifier'[w] = verifier[w]
  BY <1>3, <1>4 DEF JobP!NoRead
<1>6. VerdictsRight'
  BY <1>1, <1>3, <1>5 DEF VerdictsRight, JobIs
<1>7. AnchorP!Typed' /\ KeysFollow'
  BY <1>2, <1>3, AnchorRests DEF VerifySelf
<1>8. Files'
  BY <1>3, <1>5 DEF VerifySelf, ServeGoto, Files, ProfileOK, ServingOK, ServingPCs,
     ReportOK, JobIs, JobSigned, webVars
<1> QED BY <1>2, <1>6, <1>7, <1>8

\* A step of verify leaves the profile it looks for alone, and comes to a
\* verdict only in Resolve.
LEMMA VerifyMoves ==
  ASSUME Inv, NEW v \in Verifiers, JobP!VerifyStep(v)
  PROVE  /\ UNCHANGED <<signer, made>>
         /\ \A w \in Verifiers : w # v => verifier'[w] = verifier[w]
         /\ verifier'[v].profile = verifier[v].profile
         /\ verifier'[v].pc = "verdict" =>
              /\ verifier[v].pc = "resolve"
              /\ \E found \in BOOLEAN :
                   verifier'[v].verdict \in
                     JobP!VerdictsFor(verifier[v].img, verifier[v].key,
                                      verifier[v].profile, found)
<1>1. verifier \in [Verifiers -> JobP!VerifierStates]
  BY DEF Inv, JobP!Inv, JobP!VerifiersOK
<1>2. UNCHANGED <<signer, made>>
  BY DEF JobP!VerifyStep, JobP!ReadImage, JobP!ReadKey, JobP!DetectBackend,
     JobP!OpenForVerify, JobP!Resolve, JobP!signVars
<1>3. CASE ~JobP!Resolve(v)
  <2> DEFINE t == verifier[v]
             Moved(s) == s.profile = t.profile /\ s.pc # "verdict"
                         /\ verifier' = [verifier EXCEPT ![v] = s]
  <2>1. t \in JobP!VerifierStates
    BY <1>1
  <2>2. JobP!ReadImage(v) => \E s : Moved(s)
    BY <2>1 DEF JobP!ReadImage, JobP!VerifierStates
  <2>3. JobP!ReadKey(v) => \E s : Moved(s)
    BY <2>1 DEF JobP!ReadKey, JobP!VerifierStates
  <2>4. JobP!DetectBackend(v) => \E s : Moved(s)
    BY <2>1 DEF JobP!DetectBackend, JobP!VerifierStates
  <2>5. JobP!OpenForVerify(v) => \E s : Moved(s)
    BY <2>1 DEF JobP!OpenForVerify, JobP!VerifierStates
  <2>6. PICK s : Moved(s)
    BY <1>3, <2>2, <2>3, <2>4, <2>5 DEF JobP!VerifyStep
  <2> QED BY <1>1, <1>2, <2>6
<1>4. CASE JobP!Resolve(v)
  <2> DEFINE s == verifier[v]
             found == JobP!Finds(root, s.kind, s.idx, s.img)
  <2>1. found \in BOOLEAN
    BY DEF JobP!Finds
  <2> HIDE DEF found
  <2>2. PICK d \in JobP!VerdictsFor(s.img, s.key, s.profile, found) :
          verifier' = [verifier EXCEPT ![v].pc = "verdict", ![v].verdict = d]
    BY <1>4 DEF JobP!Resolve, found
  <2>3. s.pc = "resolve"
    BY <1>4 DEF JobP!Resolve
  <2>4. /\ verifier'[v].pc = "verdict" /\ verifier'[v].verdict = d
        /\ verifier'[v].profile = s.profile /\ verifier'[v].img = s.img
        /\ \A w \in Verifiers : w # v => verifier'[w] = verifier[w]
    BY <1>1, <2>2 DEF JobP!VerifierStates
  <2> QED BY <1>2, <2>1, <2>2, <2>3, <2>4
<1> QED BY <1>3, <1>4

LEMMA VerifySelfStepKeeps ==
  ASSUME Inv, NEW v \in Verifiers, VerifySelfStep(v)
  PROVE  Inv'
<1> USE DEF Inv
<1>1. JobP!VerifyStep(v)
  BY SameVerify DEF VerifySelfStep
<1>2. JobP!Inv'
  BY <1>1, JobP!VerifyKeepsInv, ComponentAssumptions
<1>3. RunFacts /\ RunFacts'
  BY <1>2, RunKnown, RunKnownNext
<1>4. /\ UNCHANGED <<signer, made>>
      /\ \A w \in Verifiers : w # v => verifier'[w] = verifier[w]
      /\ verifier'[v].profile = verifier[v].profile
  BY <1>1, VerifyMoves
<1>5. ASSUME verifier'[v].pc = "verdict", JobIs("alpha_lsb")
      PROVE  verifier'[v].verdict = "verified"
  <2>1. PICK found \in BOOLEAN :
          verifier'[v].verdict \in
            JobP!VerdictsFor(verifier[v].img, verifier[v].key, verifier[v].profile, found)
    BY <1>1, <1>5, VerifyMoves
  <2>2. verifier[v].pc = "resolve" /\ verifier[v].img = theRun
    BY <1>1, <1>3, <1>5, VerifyMoves DEF RunFacts
  <2>3. verifier[v].profile = "alpha_lsb"
    BY <1>5 DEF VerdictsRight, JobIs
  <2>4. DOMAIN made' = {theRun} /\ theRun \in Runs
    BY <1>3, <1>4, <1>5, OneRun DEF RunFacts, JobIs
  <2>5. verifier'[v].verdict \notin {"manifest_not_found", "no_valid_signatures"}
    BY <1>3, <1>5, <2>4 DEF RunFacts, JobP!FirstRunCommits
  <2> QED BY <1>5, <2>1, <2>2, <2>3, <2>5 DEF JobP!VerdictsFor, JobIs
<1>6. VerdictsRight'
  BY <1>4, <1>5 DEF VerdictsRight, JobIs
<1>7. AnchorP!Typed' /\ KeysFollow'
  BY <1>2, <1>4, AnchorRests DEF VerifySelfStep
<1>8. Files'
  BY <1>4 DEF VerifySelfStep, ServeGoto, Files, ProfileOK, ServingOK, ServingPCs,
     ReportOK, JobIs, JobSigned, webVars
<1> QED BY <1>2, <1>6, <1>7, <1>8

\* A report is kept after its verdict, and holds that verdict.
LEMMA SaveReportKeeps ==
  ASSUME Inv, NEW v \in Verifiers, SaveReport(v)
  PROVE  Inv'
<1> USE DEF Inv
<1>1. JobP!Inv' /\ AnchorP!Typed' /\ KeysFollow' /\ VerdictsRight'
  BY Resting DEF SaveReport
<1>2. RunFacts
  BY RunKnown
<1> DEFINE report == [verdict |-> verifier[v].verdict, profile |-> verifier[v].profile]
<1>3. report \in Reports
  BY <1>2 DEF RunFacts, JobP!TypeOK, Reports, Job!Verdicts, JobP!Verdicts,
     WebDefaultProfile
<1>4. JobSigned /\ (JobIs("alpha_lsb") => report.verdict = "verified")
  BY <1>2 DEF RunFacts, SaveReport, Files, ServingOK, VerdictsRight, JobSigned
<1>5. reportF' \in {Empty, Garbled, Whole(report)}
  BY DEF SaveReport, Landing
<1> HIDE DEF report
<1>6. UNCHANGED <<jobVars, anchorVars, crashes, webVars, sent>>
  BY DEF SaveReport
<1>7. ReportOK'
  BY <1>3, <1>4, <1>5, <1>6 DEF ReportOK, FileOf, Parses, Empty, Garbled, Whole, JobIs,
     JobSigned, jobVars, signJobVars
<1>8. ServingOK'
  BY <1>6 DEF SaveReport, ServeGoto, Files, ServingOK, ServingPCs, jobVars
<1>9. Files'
  BY <1>6, <1>7, <1>8 DEF Files, ProfileOK, JobIs, jobVars, signJobVars, webVars
<1> QED BY <1>1, <1>9

-----------------------------------------------------------------------------
(* Anchor requests                                                          *)

\* A step in the anchor directory keeps where its keys come from: key.json
\* parses only after the run has returned, and then it names the run.
LEMMA AnchorMoves ==
  ASSUME Inv, AnchorP!Next, UNCHANGED <<imageF, keyF, made>>,
         signer'.pc = "done" <=> signer.pc = "done"
  PROVE  AnchorP!Typed' /\ KeysFollow' /\ crashes' \in 0..MaxCrashes
<1> USE DEF Inv
<1>1. AnchorP!Typed'
  BY AnchorP!TypedNext, ComponentAssumptions
<1>2. AnchorP!Parses(keyF) => keyF.val = theRun /\ signer.pc = "done"
  BY RunKnown DEF RunFacts, Parses, AnchorP!Parses
<1>3. CASE signer.pc = "done"
  <2> DEFINE K == {theRun}
  <2>1. AnchorP!KidsFrom(K) /\ (AnchorP!Parses(keyF) => keyF.val \in K)
    BY <1>2, <1>3 DEF KeysFollow
  <2> HIDE DEF K
  <2>2. AnchorP!KidsFrom(K)'
    BY <2>1, AnchorP!KidsStep, ComponentAssumptions
  <2> QED BY <1>1, <1>3, <2>2 DEF K, KeysFollow, AnchorP!Typed, AnchorP!TypeOK
<1>4. CASE signer.pc # "done"
  <2> DEFINE K == {}
  <2>1. AnchorP!KidsFrom(K) /\ (AnchorP!Parses(keyF) => keyF.val \in K)
    BY <1>2, <1>4 DEF KeysFollow
  <2> HIDE DEF K
  <2>2. AnchorP!KidsFrom(K)'
    BY <2>1, AnchorP!KidsStep, ComponentAssumptions
  <2> QED BY <1>1, <1>4, <2>2 DEF K, KeysFollow, AnchorP!Typed, AnchorP!TypeOK
<1> QED BY <1>3, <1>4

LEMMA AnchorStepKeeps ==
  ASSUME Inv, AnchorStep
  PROVE  Inv'
<1> USE DEF Inv
<1>1. AnchorP!Next
  <2>1. AnchorP!Observe
    BY SameObserve DEF AnchorStep
  <2>2. AnchorP!DirNext
    BY SamePost, SameGet, SameProbe DEF AnchorStep, AnchorP!DirNext, AnchorP!Procs,
       Files
  <2> QED BY <2>1, <2>2 DEF AnchorP!Next
<1>2. UNCHANGED <<jobVars, webVars, reportVars>>
  BY DEF AnchorStep
<1>3. AnchorP!Typed' /\ KeysFollow' /\ crashes' \in 0..MaxCrashes
  BY <1>1, <1>2, AnchorMoves DEF jobVars, signJobVars
<1>4. JobP!Inv'
  BY <1>2, <1>3, JobP!OthersKeepInv, ComponentAssumptions DEF jobVars, signJobVars
<1>5. sent' \subseteq Requests \cup Getters
  BY DEF AnchorStep, Files
<1>6. VerdictsRight' /\ Files'
  BY <1>2, <1>5 DEF VerdictsRight, Files, ProfileOK, ServingOK, ReportOK, JobIs,
     JobSigned, jobVars, signJobVars, webVars, reportVars
<1> QED BY <1>3, <1>4, <1>6

LEMMA SendingKeeps ==
  ASSUME Inv, NEW p \in Requests \cup Getters, SendAnchor(p) \/ AnchorNotFound(p)
  PROVE  Inv'
<1> USE DEF Inv
<1>1. UNCHANGED <<jobVars, anchorVars, crashes, webVars, reportVars>>
      /\ sent' \subseteq Requests \cup Getters
  BY DEF SendAnchor, AnchorNotFound, Files
<1>2. JobP!Inv' /\ AnchorP!Typed' /\ KeysFollow' /\ VerdictsRight'
  BY <1>1, Resting
<1>3. Files'
  BY <1>1 DEF Files, ProfileOK, ServingOK, ReportOK, JobIs, JobSigned, jobVars,
     signJobVars, webVars, reportVars
<1> QED BY <1>2, <1>3

-----------------------------------------------------------------------------

\* The death of the server takes every handler, and no file.
LEMMA CrashKeeps ==
  ASSUME Inv, Crash
  PROVE  Inv'
<1> USE DEF Inv
<1>1. AnchorP!Next
  BY SameCrash, SameObserve DEF Crash, AnchorP!Next
<1>2. /\ signer' = [signer EXCEPT !.pc = IF @ = "done" THEN "done" ELSE "idle"]
      /\ signer'.pc = "done" <=> signer.pc = "done"
  BY RunKnown DEF Crash, RunFacts, JobP!TypeOK
<1>3. UNCHANGED <<imageF, keyF, made>>
  BY DEF Crash
<1>4. AnchorP!Typed' /\ KeysFollow' /\ crashes' \in 0..MaxCrashes
  BY <1>1, <1>2, <1>3, AnchorMoves
<1>5. verifier' = [v \in Verifiers |-> JobP!NoRead]
  BY DEF Crash, Job!NoRead, JobP!NoRead, Job!NoRun, JobP!NoRun
<1>6. JobP!Inv'
  <2>1. UNCHANGED <<outDir, imageF, mkeyF, uriF, keyF, root, made>>
    BY DEF Crash
  <2> QED BY <1>2, <1>4, <1>5, <2>1, JobP!DeathKeepsInv, ComponentAssumptions
<1>7. \A v \in Verifiers : verifier'[v].profile = "alpha_lsb" /\ verifier'[v].pc = "idle"
  BY <1>5 DEF JobP!NoRead
<1>8. VerdictsRight'
  BY <1>7 DEF VerdictsRight
<1>9. Files'
  BY <1>2 DEF Crash, Files, ProfileOK, ServingOK, ServingPCs, Endpoints, ReportOK, JobIs,
     JobSigned, WebPCs
<1> QED BY <1>4, <1>6, <1>8, <1>9

LEMMA InvInit == Init => Inv
<1> SUFFICES ASSUME Init PROVE Inv
  OBVIOUS
<1> USE DEF Init
<1>1. JobP!Init
  BY SameJobInit
<1>2. JobP!Inv
  BY <1>1, JobP!InvInit, ComponentAssumptions
<1>3. mkeyF \in FileOf(Runs) /\ uriF \in FileOf(Runs) /\ keyF \in FileOf(Runs)
  BY <1>2, RunKnown, SameFiles DEF RunFacts, JobP!TypeOK
<1>4. AnchorP!InitDir
  BY SameInitDir
<1>5. AnchorP!Typed
  BY <1>3, <1>4, SameFiles, AnchorP!TypedInit, ComponentAssumptions
<1>6. AnchorP!KidsFrom({}) /\ signer.pc = "idle"
  BY <1>1, <1>4, AnchorP!KidsInit, ComponentAssumptions DEF JobP!Init
<1>7. VerdictsRight
  BY <1>1 DEF VerdictsRight, JobP!Init, JobP!NoRead
<1>8. Files
  BY DEF Files, ProfileOK, ServingOK, ReportOK, WebPCs, ServingPCs, Endpoints, FileOf,
     Parses, Absent
<1> QED BY <1>2, <1>5, <1>6, <1>7, <1>8 DEF Inv, KeysFollow

LEMMA InvNext == Inv /\ [Next]_vars => Inv'
<1> SUFFICES ASSUME Inv, [Next]_vars PROVE Inv'
  OBVIOUS
<1>1. CASE UNCHANGED vars
  <2>1. JobP!Inv' /\ AnchorP!Typed' /\ KeysFollow' /\ VerdictsRight'
    BY <1>1, Resting DEF vars
  <2>2. Files'
    BY <1>1 DEF vars, Inv, Files, ProfileOK, ServingOK, ReportOK, JobIs, JobSigned,
       jobVars, signJobVars, webVars, reportVars
  <2> QED BY <2>1, <2>2 DEF Inv
<1>2. CASE Next
  BY <1>2, NewJobStep, StartSigningStep, SignStepKeeps, WriteProfileStep, ServeStep,
     VerifySelfKeeps, VerifySelfStepKeeps, SaveReportKeeps, AnchorStepKeeps,
     SendingKeeps, CrashKeeps DEF Next
<1> QED BY <1>1, <1>2

LEMMA InvHolds == Spec => []Inv
  BY InvInit, InvNext, PTL DEF Spec

-----------------------------------------------------------------------------

\* Handlers, files and directories of a job stay what they are declared to
\* be, whatever interleaves on the event loop and the pool and wherever the
\* server dies: profile.txt and verify_report.json hold a profile and a
\* report or do not parse, and the anchor requests in flight are requests.
THEOREM TypeCorrect == Spec => []TypeOK
<1>1. Inv => TypeOK
  <2> SUFFICES ASSUME Inv PROVE TypeOK
    OBVIOUS
  <2>1. Job!TypeOK
    BY RunKnown, SameJobTypes DEF Inv, RunFacts
  <2>2. Anchor!TypeOK
    BY SameAnchorTypes DEF Inv, AnchorP!Typed
  <2> QED BY <2>1, <2>2 DEF TypeOK, Inv, Files, ProfileOK, ServingOK, ReportOK
<1> QED BY <1>1, InvHolds, PTL

\* A report of a job that was signed with the alpha_lsb carrier is kept only
\* if it says "verified", however verify and report requests interleave with
\* sign_and_embed and with each other, and wherever the server dies.
THEOREM KeptReportsAreRight == Spec => []AlphaReportsVerified
<1>1. Inv => AlphaReportsVerified
  BY DEF Inv, Files, ReportOK, AlphaReportsVerified, JobIs, JobSigned
<1> QED BY <1>1, InvHolds, PTL

\* Whatever is in the anchor ledger names the job's own key, and is there only
\* when the image, the key and the manifest that the record refers to are in
\* place.
THEOREM OnlyCompleteJobsAnchored == Spec => []AnchoredJobComplete
<1>1. Inv => AnchoredJobComplete
  <2> SUFFICES ASSUME Inv, NEW i \in DOMAIN logged
               PROVE  /\ logged[i].md.kid = theRun
                      /\ keyF = Whole(theRun) /\ imageF = Whole(theRun)
                      /\ Job!FreshFinds(root, theRun)
    BY DEF AnchoredJobComplete
  <2>1. signer.pc = "done" /\ logged[i].md.kid = theRun
    BY DEF Inv, KeysFollow, AnchorP!KidsFrom, AnchorP!KidsIn
  <2>2. keyF = Whole(theRun) /\ imageF = Whole(theRun) /\ JobP!FreshFinds(root, theRun)
    BY <2>1, RunKnown DEF Inv, RunFacts
  <2> QED BY <2>1, <2>2, SameFreshFinds
<1> QED BY <1>1, InvHolds, PTL
=============================================================================
