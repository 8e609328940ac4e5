-------------------------- MODULE AnchorDir_proofs --------------------------
(***************************************************************************)
(* The anchor directory, for any sets of requests, clients and runs.       *)
(*                                                                         *)
(* However the handlers interleave and wherever the server dies, every     *)
(* variable keeps its type, the slots of a readable ledger ascend and no   *)
(* GET creates it.  Without a death, somebody's transaction survives the   *)
(* lost updates.  With one POST at a time nothing is lost at all: the      *)
(* ledger is an append-only log and a POST that succeeds leaves a          *)
(* directory that verifies, deaths of earlier POSTs included.              *)
(***************************************************************************)
EXTENDS AnchorDir, TLAPS, FiniteSetTheorems

-----------------------------------------------------------------------------
(* The files                                                                *)

\* A file is absent, empty, garbled, or holds one of the values; only then it
\* parses.
LEMMA FileOfCases ==
  ASSUME NEW V, NEW f \in FileOf(V)
  PROVE  /\ f.st \in {"absent", "empty", "garbled", "whole"}
         /\ Parses(f) => f.val \in V
  BY DEF FileOf, Absent, Empty, Garbled, Parses

\* The constant contents are files.
LEMMA ConstantFiles ==
  ASSUME NEW V
  PROVE  Absent \in FileOf(V) /\ Empty \in FileOf(V) /\ Garbled \in FileOf(V)
  BY DEF FileOf

\* A written text is a file, and it parses to what was written.
LEMMA WholeFile ==
  ASSUME NEW V, NEW v \in V
  PROVE  Whole(v) \in FileOf(V) /\ Parses(Whole(v)) /\ Whole(v).val = v
  BY DEF FileOf, Whole, Parses

\* Empty, absent and garbled files do not parse.
LEMMA NothingToParse == ~Parses(Absent) /\ ~Parses(Empty) /\ ~Parses(Garbled)
  BY DEF Parses, Absent, Empty, Garbled

\* Writing v leaves v's text or a garbled file.
LEMMA LandingCases ==
  ASSUME NEW f, NEW v, NEW tails, NEW g \in Landing(f, v, tails)
  PROVE  g = Whole(v) \/ g = Garbled
  BY DEF Landing

-----------------------------------------------------------------------------

PCsOK ==
  /\ pc \in [Procs -> PostPCs \cup GetPCs]
  /\ \A q \in Requests : pc[q] \in PostPCs
  /\ \A g \in Getters : pc[g] \in GetPCs

\* Moving one handler to a label of its kind keeps all labels right.
LEMMA GotoPost ==
  ASSUME PCsOK, NEW q \in Requests, NEW l \in PostPCs, Goto(q, l)
  PROVE  PCsOK'
<1>1. \A g \in Getters : g # q
  BY ProcsAssumption
<1> QED BY <1>1 DEF PCsOK, Goto, Procs

LEMMA GotoGet ==
  ASSUME PCsOK, NEW g \in Getters, NEW l \in GetPCs, Goto(g, l)
  PROVE  PCsOK'
<1>1. \A q \in Requests : g # q
  BY ProcsAssumption
<1> QED BY <1>1 DEF PCsOK, Goto, Procs

FilesOK ==
  /\ mkeyF \in FileOf(Runs) /\ uriF \in FileOf(Runs) /\ keyF \in FileOf(Runs)
  /\ anchorDir \in BOOLEAN
  /\ ledgerF \in FileOf(Seq(Txs))
  /\ recordF \in FileOf(Records)
  /\ receiptF \in FileOf(Receipts)
  /\ metadataF \in FileOf(Records)

LocalsOK ==
  /\ record \in [Requests -> Records]
  /\ loaded \in [Procs -> Seq(Txs)]
  /\ view \in [Getters -> Views]
  /\ now \in 0..MaxTime
  /\ crashes \in 0..MaxCrashes

\* A POST that has loaded the ledger holds the transaction it appended.
AfterLoad == {"open", "save", "openRecord", "saveRecord", "openReceipt",
              "saveReceipt", "openMetadata", "saveMetadata"}
HoldsTx == \A q \in Requests : pc[q] \in AfterLoad => loaded[q] # <<>>

LEMMA TypeParts == TypeOK <=> PCsOK /\ FilesOK /\ LocalsOK /\ logged \in Seq(Txs)
  BY DEF TypeOK, PCsOK, FilesOK, LocalsOK

\* Reading a text file of the sign-embed directory gives a run or none.
LEMMA RunInType ==
  ASSUME NEW f \in FileOf(Runs)
  PROVE  RunIn(f) \in Runs \cup {NoRun}
  BY FileOfCases DEF RunIn

\* The slot of a new transaction is a number above all slots before it.
LEMMA NextSlotType ==
  ASSUME NEW txs \in Seq(Txs), NEW t \in Nat
  PROVE  NextSlot(txs, t) \in Nat
<1>1. CASE txs = <<>>
  BY <1>1 DEF NextSlot
<1>2. CASE txs # <<>>
  <2>1. Len(txs) \in DOMAIN txs
    BY <1>2
  <2>2. txs[Len(txs)] \in Txs
    BY <2>1
  <2> QED BY <1>2, <2>2 DEF NextSlot, Txs
<1> QED BY <1>1, <1>2

LEMMA LedgerLanding ==
  ASSUME NEW f, NEW txs \in Seq(Txs), NEW tails, NEW g \in Landing(f, txs, tails)
  PROVE  /\ g \in FileOf(Seq(Txs)) /\ Exists(g)
         /\ Parses(g) => g.val = txs
<1>1. g = Whole(txs) \/ g = Garbled
  BY LandingCases
<1>2. Whole(txs) \in FileOf(Seq(Txs)) /\ Whole(txs).val = txs
  BY WholeFile
<1>3. Garbled \in FileOf(Seq(Txs)) /\ ~Parses(Garbled)
  BY ConstantFiles, NothingToParse
<1>4. Exists(Whole(txs)) /\ Exists(Garbled)
  BY DEF Exists, Whole, Garbled
<1> QED BY <1>1, <1>2, <1>3, <1>4

LEMMA LandingType ==
  ASSUME NEW V, NEW v \in V, NEW f, NEW tails, NEW g \in Landing(f, v, tails)
  PROVE  g \in FileOf(V)
  BY LandingCases, WholeFile, ConstantFiles

-----------------------------------------------------------------------------
(* Type correctness                                                         *)

LEMMA InitDirType ==
  ASSUME InitDir,
         mkeyF \in FileOf(Runs), uriF \in FileOf(Runs), keyF \in FileOf(Runs)
  PROVE  TypeOK
<1> USE DEF InitDir
<1>1. PCsOK
  BY ProcsAssumption DEF PCsOK, Procs, PostPCs, GetPCs
<1>2. FilesOK
  BY ConstantFiles DEF FilesOK
<1>3. LocalsOK
  <2>1. \A q \in Requests : Blank(q) \in Records
    BY DEF Blank, Records
  <2>2. NoView \in Views
    BY DEF NoView, Views
  <2> QED BY <2>1, <2>2, BoundsAssumption DEF LocalsOK
<1>4. logged \in Seq(Txs)
  OBVIOUS
<1> QED BY <1>1, <1>2, <1>3, <1>4, TypeParts

LEMMA InitType == Init => TypeOK
<1> SUFFICES ASSUME Init PROVE TypeOK
  OBVIOUS
<1>1. PICK r \in Runs : /\ mkeyF = Whole(r) /\ uriF = Whole(r)
                        /\ keyF \in {Whole(r), Absent}
  BY DEF Init
<1>2. Whole(r) \in FileOf(Runs)
  BY WholeFile
<1> QED BY <1>1, <1>2, ConstantFiles, InitDirType DEF Init

\* Every action keeps labels, files and local values in their types; Observe
\* then only copies a text that parses.
LEMMA ObserveType ==
  ASSUME logged \in Seq(Txs), ledgerF' \in FileOf(Seq(Txs)), Observe
  PROVE  logged' \in Seq(Txs)
  BY FileOfCases DEF Observe

Parts == PCsOK /\ FilesOK /\ LocalsOK

LEMMA LedgerInitType ==
  ASSUME Parts, NEW p \in Procs,
         ProbeLedger(p) \/ CreateLedger(p) \/ WriteEmptyLedger(p)
  PROVE  Parts'
<1> USE DEF Parts
<1>1. AfterInit(p) \in (IF p \in Requests THEN PostPCs ELSE GetPCs)
  BY DEF AfterInit, PostPCs, GetPCs
<1>g. ASSUME NEW l, Goto(p, l), l \in {AfterInit(p), "create", "createWrite"}
      PROVE  PCsOK'
  BY <1>1, <1>g, GotoPost, GotoGet DEF Procs, PostPCs, GetPCs
<1>2. CASE ProbeLedger(p)
  <2>1. PCsOK'
    BY <1>2, <1>g DEF ProbeLedger
  <2> QED BY <1>2, <2>1 DEF ProbeLedger, signVars, dirVars, FilesOK, LocalsOK
<1>3. CASE CreateLedger(p)
  <2>1. PCsOK'
    BY <1>3, <1>g DEF CreateLedger
  <2> QED BY <1>3, <2>1, ConstantFiles
          DEF CreateLedger, signVars, FilesOK, LocalsOK
<1>4. CASE WriteEmptyLedger(p)
  <2>1. PCsOK'
    BY <1>4, <1>g DEF WriteEmptyLedger
  <2>2. ledgerF' \in FileOf(Seq(Txs))
    <3>1. <<>> \in Seq(Txs)
      OBVIOUS
    <3> QED BY <1>4, <3>1, LedgerLanding DEF WriteEmptyLedger
  <2> QED BY <1>4, <2>1, <2>2 DEF WriteEmptyLedger, signVars, FilesOK, LocalsOK
<1> QED BY <1>2, <1>3, <1>4

LEMMA FailType ==
  ASSUME Parts, NEW q \in Requests, Fail(q)
  PROVE  Parts'
<1>1. PCsOK'
  BY GotoPost DEF Parts, Fail, PostPCs
<1> QED BY <1>1 DEF Parts, Fail, signVars, dirVars, FilesOK, LocalsOK

LEMMA PostType ==
  ASSUME Parts, HoldsTx, NEW q \in Requests, Post(q)
  PROVE  Parts'
<1> USE DEF Parts
<1>g. ASSUME NEW l \in PostPCs, Goto(q, l) PROVE PCsOK'
  BY <1>g, GotoPost
<1>r. record[q] \in Records /\ q \in Procs
  BY DEF LocalsOK, Procs
<1>1. CASE PostAnchor(q)
  <2>1. PCsOK'
    BY <1>1, <1>g DEF PostAnchor, PostPCs
  <2> QED BY <1>1, <2>1 DEF PostAnchor, signVars, FilesOK, LocalsOK
<1>2. CASE ReadManifestKey(q)
  <2>1. CASE Fail(q)
    BY <2>1, FailType
  <2>2. CASE ~Fail(q)
    <3>1. RunIn(mkeyF) \in Runs \cup {NoRun}
      BY RunInType DEF FilesOK
    <3>2. [record[q] EXCEPT !.subject = RunIn(mkeyF)] \in Records
      BY <1>r, <3>1 DEF Records
    <3>3. record' = [record EXCEPT ![q] = [record[q] EXCEPT !.subject = RunIn(mkeyF)]]
      BY <1>2, <2>2 DEF ReadManifestKey
    <3>4. record' \in [Requests -> Records]
      BY <3>2, <3>3 DEF LocalsOK
    <3>5. PCsOK'
      BY <1>2, <2>2, <1>g DEF ReadManifestKey, PostPCs
    <3> QED BY <1>2, <2>2, <3>4, <3>5
            DEF ReadManifestKey, signVars, dirVars, FilesOK, LocalsOK
  <2> QED BY <2>1, <2>2
<1>3. CASE ReadStorageUri(q)
  <2>1. CASE Fail(q)
    BY <2>1, FailType
  <2>2. CASE ~Fail(q)
    <3>1. RunIn(uriF) \in Runs \cup {NoRun}
      BY RunInType DEF FilesOK
    <3>2. [record[q] EXCEPT !.ref = RunIn(uriF)] \in Records
      BY <1>r, <3>1 DEF Records
    <3>3. record' = [record EXCEPT ![q] = [record[q] EXCEPT !.ref = RunIn(uriF)]]
      BY <1>3, <2>2 DEF ReadStorageUri
    <3>4. record' \in [Requests -> Records]
      BY <3>2, <3>3 DEF LocalsOK
    <3>5. PCsOK'
      BY <1>3, <2>2, <1>g DEF ReadStorageUri, PostPCs
    <3> QED BY <1>3, <2>2, <3>4, <3>5
            DEF ReadStorageUri, signVars, dirVars, FilesOK, LocalsOK
  <2> QED BY <2>1, <2>2
<1>4. CASE ReadKeyEnvelope(q)
  <2>1. CASE Fail(q)
    BY <2>1, FailType
  <2>2. CASE ~Fail(q)
    <3>1. RunIn(keyF) \in Runs \cup {NoRun}
      BY RunInType DEF FilesOK
    <3>2. [record[q] EXCEPT !.kid = RunIn(keyF)] \in Records
      BY <1>r, <3>1 DEF Records
    <3>3. record' = [record EXCEPT ![q] = [record[q] EXCEPT !.kid = RunIn(keyF)]]
      BY <1>4, <2>2 DEF ReadKeyEnvelope
    <3>4. record' \in [Requests -> Records]
      BY <3>2, <3>3 DEF LocalsOK
    <3>5. PCsOK'
      BY <1>4, <2>2, <1>g DEF ReadKeyEnvelope, PostPCs
    <3> QED BY <1>4, <2>2, <3>4, <3>5
            DEF ReadKeyEnvelope, signVars, dirVars, FilesOK, LocalsOK
  <2> QED BY <2>1, <2>2
<1>5. CASE LoadForSubmit(q)
  <2>1. CASE Fail(q)
    BY <2>1, FailType
  <2>2. CASE ~Fail(q)
    <3>1. ledgerF.val \in Seq(Txs)
      BY <1>5, <2>2, FileOfCases DEF LoadForSubmit, FilesOK
    <3>2. PICK t \in now..MaxTime :
            /\ now' = t
            /\ loaded' = [loaded EXCEPT ![q] =
                 Append(ledgerF.val, [tx |-> q, slot |-> NextSlot(ledgerF.val, t),
                                      md |-> record[q]])]
      BY <1>5, <2>2 DEF LoadForSubmit
    <3>3. t \in Nat /\ t \in 0..MaxTime
      BY BoundsAssumption DEF LocalsOK
    <3>4. [tx |-> q, slot |-> NextSlot(ledgerF.val, t), md |-> record[q]] \in Txs
      BY <1>r, <3>1, <3>3, NextSlotType DEF Txs
    <3>5. loaded' \in [Procs -> Seq(Txs)]
      BY <1>r, <3>1, <3>2, <3>4 DEF LocalsOK
    <3>6. PCsOK'
      BY <1>5, <2>2, <1>g DEF LoadForSubmit, PostPCs
    <3> QED BY <1>5, <2>2, <3>2, <3>3, <3>5, <3>6
            DEF LoadForSubmit, signVars, dirVars, FilesOK, LocalsOK
  <2> QED BY <2>1, <2>2
<1>6. CASE OpenLedger(q)
  <2>1. PCsOK'
    BY <1>6, <1>g DEF OpenLedger, PostPCs
  <2> QED BY <1>6, <2>1, ConstantFiles DEF OpenLedger, signVars, FilesOK, LocalsOK
<1>7. CASE SaveLedger(q)
  <2>1. PCsOK'
    BY <1>7, <1>g DEF SaveLedger, PostPCs
  <2>2. loaded[q] \in Seq(Txs)
    BY <1>r DEF LocalsOK
  <2>3. ledgerF' \in FileOf(Seq(Txs))
    BY <1>7, <2>2, LedgerLanding DEF SaveLedger
  <2> QED BY <1>7, <2>1, <2>3 DEF SaveLedger, signVars, FilesOK, LocalsOK
<1>8. CASE WriteAnchorRecord(q)
  <2>1. PCsOK'
    BY <1>8, <1>g DEF WriteAnchorRecord, PostPCs
  <2>2. recordF' \in FileOf(Records)
    BY <1>8, <1>r, LandingType, ConstantFiles DEF WriteAnchorRecord
  <2> QED BY <1>8, <2>1, <2>2 DEF WriteAnchorRecord, signVars, FilesOK, LocalsOK
<1>9. CASE WriteReceipt(q)
  <2>1. PCsOK'
    BY <1>9, <1>g DEF WriteReceipt, PostPCs
  <2>2. receiptF' \in FileOf(Receipts)
    <3>1. CASE pc[q] = "openReceipt"
      BY <1>9, <3>1, ConstantFiles DEF WriteReceipt
    <3>2. CASE pc[q] # "openReceipt"
      <4>1. loaded[q] \in Seq(Txs) /\ loaded[q] # <<>>
        BY <1>9, <1>r, <3>2 DEF WriteReceipt, HoldsTx, AfterLoad, LocalsOK
      <4>2. Submitted(q) \in Txs
        BY <4>1 DEF Submitted
      <4>3. Receipt(q) \in Receipts
        BY <1>r, <4>2 DEF Receipt, Receipts, Txs
      <4>4. receiptF' \in Landing(receiptF, Receipt(q), BOOLEAN)
        BY <1>9, <3>2 DEF WriteReceipt
      <4> QED BY <4>3, <4>4, LandingType
    <3> QED BY <3>1, <3>2
  <2> QED BY <1>9, <2>1, <2>2 DEF WriteReceipt, signVars, FilesOK, LocalsOK
<1>10. CASE WriteMetadata(q)
  <2>1. PCsOK'
    BY <1>10, <1>g DEF WriteMetadata, PostPCs
  <2>2. metadataF' \in FileOf(Records)
    BY <1>10, <1>r, LandingType, ConstantFiles DEF WriteMetadata
  <2> QED BY <1>10, <2>1, <2>2 DEF WriteMetadata, signVars, FilesOK, LocalsOK
<1> QED BY <1>1, <1>2, <1>3, <1>4, <1>5, <1>6, <1>7, <1>8, <1>9, <1>10 DEF Post

LEMMA GetType ==
  ASSUME Parts, NEW g \in Getters, Get(g)
  PROVE  Parts'
<1> USE DEF Parts
<1>g. ASSUME NEW l \in GetPCs, Goto(g, l) PROVE PCsOK'
  BY <1>g, GotoGet
<1>v. view[g] \in Views
  BY DEF LocalsOK
<1>u. ASSUME NEW v \in Views, view' = [view EXCEPT ![g] = v]
      PROVE  view' \in [Getters -> Views]
  BY <1>u DEF LocalsOK
<1>n. NoView \in Views
  BY DEF NoView, Views
<1>f. ASSUME NoAnswer(g) PROVE Parts'
  <2>1. PCsOK'
    BY <1>f, <1>g DEF NoAnswer, GetPCs
  <2>2. view' \in [Getters -> Views]
    BY <1>f, <1>n, <1>u DEF NoAnswer
  <2> QED BY <1>f, <2>1, <2>2 DEF NoAnswer, signVars, dirVars, FilesOK, LocalsOK
<1>1. CASE GetAnchor(g)
  <2>1. PCsOK'
    BY <1>1, <1>g DEF GetAnchor, GetPCs
  <2>2. view' \in [Getters -> Views]
    BY <1>1, <1>n, <1>u DEF GetAnchor
  <2> QED BY <1>1, <2>1, <2>2 DEF GetAnchor, signVars, dirVars, FilesOK, LocalsOK
<1>2. CASE ReadAnchorRecord(g) /\ ~NoAnswer(g)
  <2>1. PCsOK'
    BY <1>2, <1>g DEF ReadAnchorRecord, GetPCs
  <2>2. recordF.val \in Records
    BY <1>2, FileOfCases DEF ReadAnchorRecord, FilesOK
  <2>3. [view[g] EXCEPT !.rec = {recordF.val}] \in Views
    BY <1>v, <2>2 DEF Views
  <2>4. view' \in [Getters -> Views]
    BY <1>2, <1>u, <2>3 DEF ReadAnchorRecord
  <2> QED BY <1>2, <2>1, <2>4
          DEF ReadAnchorRecord, signVars, dirVars, FilesOK, LocalsOK
<1>3. CASE ReadReceipt(g) /\ ~NoAnswer(g)
  <2>1. PCsOK'
    BY <1>3, <1>g DEF ReadReceipt, GetPCs
  <2>2. receiptF.val \in Receipts
    BY <1>3, FileOfCases DEF ReadReceipt, FilesOK
  <2>3. [view[g] EXCEPT !.rcpt = {receiptF.val}] \in Views
    BY <1>v, <2>2 DEF Views
  <2>4. view' \in [Getters -> Views]
    BY <1>3, <1>u, <2>3 DEF ReadReceipt
  <2> QED BY <1>3, <2>1, <2>4
          DEF ReadReceipt, signVars, dirVars, FilesOK, LocalsOK
<1>4. CASE FetchTransaction(g) /\ ~NoAnswer(g)
  <2>1. PCsOK'
    BY <1>4, <1>g DEF FetchTransaction, GetPCs
  <2>2. ledgerF.val \in Seq(Txs)
    BY <1>4, FileOfCases DEF FetchTransaction, FilesOK
  <2>3. PICK rcpt \in view[g].rcpt :
          view' = [view EXCEPT ![g].tx = TxNamed(ledgerF.val, rcpt.tx)]
    BY <1>4 DEF FetchTransaction
  <2>4. TxNamed(ledgerF.val, rcpt.tx) \in SUBSET Txs
    BY <2>2 DEF TxNamed
  <2>5. [view[g] EXCEPT !.tx = TxNamed(ledgerF.val, rcpt.tx)] \in Views
    BY <1>v, <2>4 DEF Views
  <2>6. view' \in [Getters -> Views]
    BY <1>u, <2>3, <2>5
  <2> QED BY <1>4, <2>1, <2>6
          DEF FetchTransaction, signVars, dirVars, FilesOK, LocalsOK
<1>5. CASE VerifyAgainstTip(g) /\ ~NoAnswer(g)
  <2>1. PCsOK'
    BY <1>5, <1>g DEF VerifyAgainstTip, GetPCs
  <2> DEFINE verdict ==
        \E rec \in view[g].rec, rcpt \in view[g].rcpt, tx \in view[g].tx :
          AnchorOk(rec, rcpt, tx, ledgerF.val)
  <2>2. verdict \in BOOLEAN /\ view' = [view EXCEPT ![g].ok = verdict]
    BY <1>5 DEF VerifyAgainstTip
  <2> HIDE DEF verdict
  <2>3. [view[g] EXCEPT !.ok = verdict] \in Views
    BY <1>v, <2>2 DEF Views
  <2>4. view' \in [Getters -> Views]
    BY <1>u, <2>2, <2>3
  <2> QED BY <1>5, <2>1, <2>4
          DEF VerifyAgainstTip, signVars, dirVars, FilesOK, LocalsOK
<1>6. ASSUME NEW at, NEW f, NEW next \in GetPCs, ShowFile(g, at, f, next),
             ~NoAnswer(g)
      PROVE  Parts'
  <2>1. PCsOK'
    BY <1>6, <1>g DEF ShowFile
  <2> QED BY <1>6, <2>1 DEF ShowFile, signVars, dirVars, FilesOK, LocalsOK
<1>7. {"showReceipt", "showMetadata", "answered"} \subseteq GetPCs
  BY DEF GetPCs
<1> QED BY <1>f, <1>1, <1>2, <1>3, <1>4, <1>5, <1>6, <1>7 DEF Get

LEMMA CrashType ==
  ASSUME Parts, Crash
  PROVE  Parts'
<1>1. PCsOK'
  BY ProcsAssumption DEF Parts, PCsOK, Crash, Procs, PostPCs, GetPCs
<1>2. view' \in [Getters -> Views]
  BY DEF Crash, NoView, Views
<1>3. crashes' \in 0..MaxCrashes
  BY BoundsAssumption DEF Parts, LocalsOK, Crash
<1> QED BY <1>1, <1>2, <1>3
        DEF Parts, Crash, signVars, dirVars, FilesOK, LocalsOK

\* Only LoadForSubmit brings a POST past the load, and it appends.
LEMMA HoldsTxStep ==
  ASSUME Parts, HoldsTx, DirNext \/ Crash
  PROVE  HoldsTx'
<1> SUFFICES ASSUME NEW r \in Requests, pc'[r] \in AfterLoad
             PROVE  loaded'[r] # <<>>
  BY DEF HoldsTx
<1> USE DEF Parts, PCsOK, Procs
<1>k. ASSUME loaded' = loaded, pc[r] \in AfterLoad PROVE loaded'[r] # <<>>
  BY <1>k DEF HoldsTx
<1>1. ASSUME NEW p \in Procs,
             ProbeLedger(p) \/ CreateLedger(p) \/ WriteEmptyLedger(p)
      PROVE  loaded' = loaded /\ pc[r] \in AfterLoad
  BY <1>1 DEF ProbeLedger, CreateLedger, WriteEmptyLedger, Goto, AfterInit, AfterLoad
<1>2. ASSUME NEW g \in Getters, Get(g)
      PROVE  loaded' = loaded /\ pc[r] \in AfterLoad
  <2>1. g # r
    BY ProcsAssumption
  <2> QED BY <1>2, <2>1 DEF Get, GetAnchor, ReadAnchorRecord, ReadReceipt,
          FetchTransaction, VerifyAgainstTip, ShowFile, NoAnswer, Goto
<1>3. ASSUME NEW q \in Requests, Post(q), ~LoadForSubmit(q)
      PROVE  loaded' = loaded /\ pc[r] \in AfterLoad
  BY <1>3 DEF Post, PostAnchor, ReadManifestKey, ReadStorageUri, ReadKeyEnvelope,
     Fail, OpenLedger, SaveLedger, WriteAnchorRecord, WriteReceipt,
     WriteMetadata, Goto, AfterLoad
<1>4. ASSUME NEW q \in Requests, LoadForSubmit(q)
      PROVE  loaded'[r] # <<>>
  <2>1. CASE Fail(q)
    BY <2>1, <1>k DEF Fail, Goto, AfterLoad
  <2>2. CASE ~Fail(q) /\ r # q
    <3>1. pc[r] \in AfterLoad /\ loaded'[r] = loaded[r]
      BY <1>4, <2>2 DEF LoadForSubmit, Goto, LocalsOK, Procs
    <3> QED BY <3>1 DEF HoldsTx
  <2>3. CASE ~Fail(q) /\ r = q
    <3>1. ledgerF.val \in Seq(Txs)
      BY <1>4, <2>3, FileOfCases DEF LoadForSubmit, FilesOK
    <3>2. PICK e : loaded' = [loaded EXCEPT ![q] = Append(ledgerF.val, e)]
      BY <1>4, <2>3 DEF LoadForSubmit
    <3>3. loaded'[r] = Append(ledgerF.val, e)
      BY <2>3, <3>2 DEF LocalsOK, Procs
    <3> QED BY <3>1, <3>3
  <2> QED BY <2>1, <2>2, <2>3
<1>5. CASE Crash
  BY <1>5, <1>k, ProcsAssumption DEF Crash, AfterLoad, Procs
<1> QED BY <1>k, <1>1, <1>2, <1>3, <1>4, <1>5 DEF DirNext

LEMMA NextType ==
  ASSUME TypeOK, HoldsTx, [Next]_vars
  PROVE  TypeOK' /\ HoldsTx'
<1>1. CASE Next
  <2>1. Parts
    BY TypeParts DEF Parts
  <2>2. Parts'
    BY <1>1, <2>1, LedgerInitType, PostType, GetType, CrashType DEF Next, DirNext
  <2>3. logged' \in Seq(Txs)
    BY <1>1, <2>2, ObserveType, TypeParts DEF Next, Parts, FilesOK
  <2>4. HoldsTx'
    BY <1>1, <2>1, HoldsTxStep DEF Next
  <2>5. TypeOK'
    BY <2>2, <2>3 DEF Parts, TypeOK, PCsOK, FilesOK, LocalsOK
  <2> QED BY <2>4, <2>5
<1>2. CASE UNCHANGED vars
  BY <1>2 DEF vars, signVars, dirVars, TypeOK, HoldsTx
<1> QED BY <1>1, <1>2

\* Whatever the handlers and crashes do, every file, label and local value
\* stays of its type; a POST past its load holds the transaction it submits.
THEOREM TypeCorrect == Spec => []TypeOK
<1>1. Init => TypeOK /\ HoldsTx
  <2>1. Init => HoldsTx
    BY DEF Init, InitDir, HoldsTx, AfterLoad, Procs
  <2> QED BY <2>1, InitType
<1>2. (TypeOK /\ HoldsTx) /\ [Next]_vars => (TypeOK /\ HoldsTx)'
  BY NextType
<1> QED BY <1>1, <1>2, PTL DEF Spec

-----------------------------------------------------------------------------
(* SlotsMonotonic.  Two POSTs may load the same text and save over each    *)
(* other, so the ledger file alone is not inductive: every copy in memory  *)
(* ascends too, and a transaction is in some copy only when its POST is    *)
(* past its load, so that the load never appends a name twice.             *)

BeforeLoad == {"new", "readMkey", "readUri", "readKey", "probe", "create",
               "createWrite", "load"}

Settled(txs) == Ascending(txs) /\ \A i \in DOMAIN txs : pc[txs[i].tx] \notin BeforeLoad

\* The same text, settled in the next state.
StillSettled(txs) == Ascending(txs) /\ \A i \in DOMAIN txs : pc'[txs[i].tx] \notin BeforeLoad

Slots ==
  /\ Parses(ledgerF) => Settled(ledgerF.val)
  /\ \A q \in Requests : Settled(loaded[q])

\* No handler goes back to where it has not loaded the ledger yet.
LEMMA NoWayBack ==
  ASSUME Parts, DirNext \/ Crash, NEW r \in Requests, pc[r] \notin BeforeLoad
  PROVE  pc'[r] \notin BeforeLoad
<1> USE DEF Parts, PCsOK, Procs
<1>1. ASSUME NEW p \in Procs,
             ProbeLedger(p) \/ CreateLedger(p) \/ WriteEmptyLedger(p)
      PROVE  pc'[r] \notin BeforeLoad
  BY <1>1 DEF ProbeLedger, CreateLedger, WriteEmptyLedger, Goto, BeforeLoad
<1>2. ASSUME NEW g \in Getters, Get(g)
      PROVE  pc'[r] \notin BeforeLoad
  <2>1. g # r
    BY ProcsAssumption
  <2> QED BY <1>2, <2>1 DEF Get, GetAnchor, ReadAnchorRecord, ReadReceipt,
          FetchTransaction, VerifyAgainstTip, ShowFile, NoAnswer, Goto
<1>3. ASSUME NEW q \in Requests, Post(q)
      PROVE  pc'[r] \notin BeforeLoad
  BY <1>3 DEF Post, PostAnchor, ReadManifestKey, ReadStorageUri, ReadKeyEnvelope,
     LoadForSubmit, Fail, OpenLedger, SaveLedger, WriteAnchorRecord, WriteReceipt,
     WriteMetadata, Goto, BeforeLoad
<1>4. CASE Crash
  BY <1>4, ProcsAssumption DEF Crash, BeforeLoad
<1> QED BY <1>1, <1>2, <1>3, <1>4 DEF DirNext

LEMMA NamesType ==
  ASSUME NEW txs \in Seq(Txs), NEW i \in DOMAIN txs
  PROVE  txs[i].tx \in Requests
<1>1. txs[i] \in Txs
  OBVIOUS
<1> QED BY <1>1 DEF Txs

\* A copy of the ledger stays settled while its text does not change.
LEMMA StaysSettled ==
  ASSUME Parts, DirNext \/ Crash, NEW txs \in Seq(Txs), Settled(txs)
  PROVE  StillSettled(txs)
  BY NamesType, NoWayBack DEF Settled, StillSettled

\* submit appends above the last slot, under a name that is not there yet.
LEMMA AppendAscends ==
  ASSUME NEW txs \in Seq(Txs), Ascending(txs), NEW t \in Nat, NEW q \in Requests,
         \A i \in DOMAIN txs : txs[i].tx # q,
         NEW e \in Txs, e.tx = q, e.slot = NextSlot(txs, t)
  PROVE  Ascending(Append(txs, e))
<1> DEFINE more == Append(txs, e)
           n == Len(txs)
<1>1. /\ n \in Nat /\ DOMAIN txs = 1..n /\ DOMAIN more = 1..(n + 1)
      /\ more[n + 1] = e /\ \A i \in 1..n : more[i] = txs[i]
  OBVIOUS
<1>2. \A i \in 1..n : txs[i] \in Txs
  BY <1>1
<1>3. \A i \in 1..n : txs[i].slot \in Nat
  BY <1>2 DEF Txs
<1>4. \A i \in 1..n : txs[i].slot < e.slot
  <2> SUFFICES ASSUME NEW i \in 1..n PROVE txs[i].slot < e.slot
    OBVIOUS
  <2>1. e.slot = txs[n].slot + 1
    BY <1>1 DEF NextSlot
  <2>2. i < n => txs[i].slot < txs[n].slot
    BY <1>1 DEF Ascending
  <2>3. n \in 1..n
    BY <1>1
  <2> QED BY <1>1, <1>3, <2>1, <2>2, <2>3
<1> SUFFICES ASSUME NEW i \in 1..(n + 1), NEW j \in 1..(n + 1), i < j
             PROVE  more[i].slot < more[j].slot /\ more[i].tx # more[j].tx
  BY <1>1 DEF Ascending
<1>5. CASE j = n + 1
  BY <1>1, <1>4, <1>5
<1>6. CASE j # n + 1
  BY <1>1, <1>6 DEF Ascending
<1> QED BY <1>5, <1>6

LEMMA SlotsStep ==
  ASSUME Parts, Slots, DirNext \/ Crash
  PROVE  Slots'
<1> DEFINE Kept == /\ Parses(ledgerF') => \/ ledgerF'.val = <<>>
                                         \/ ledgerF' = ledgerF
                                         \/ \E q \in Requests : ledgerF'.val = loaded[q]
                   /\ loaded' = loaded
<1>t. /\ \A q \in Requests : loaded[q] \in Seq(Txs)
      /\ Parses(ledgerF) => ledgerF.val \in Seq(Txs)
  BY FileOfCases DEF Parts, LocalsOK, FilesOK, Procs
<1>s. ASSUME Parses(ledgerF') => StillSettled(ledgerF'.val),
             \A q \in Requests : StillSettled(loaded'[q])
      PROVE  Slots'
  BY <1>s DEF Slots, Settled, StillSettled, Ascending
<1>o. /\ \A q \in Requests : StillSettled(loaded[q])
      /\ Parses(ledgerF) => StillSettled(ledgerF.val)
  BY <1>t, StaysSettled DEF Slots
<1>e. StillSettled(<<>>)
  BY DEF StillSettled, Ascending
<1>k. ASSUME Kept PROVE Slots'
  BY <1>k, <1>s, <1>o, <1>e
<1>1. ASSUME NEW p \in Procs, ProbeLedger(p) \/ CreateLedger(p)
      PROVE  Slots'
  <2>1. Kept
    BY <1>1, NothingToParse DEF ProbeLedger, CreateLedger, dirVars
  <2> QED BY <2>1, <1>k
<1>2. ASSUME NEW p \in Procs, WriteEmptyLedger(p)
      PROVE  Slots'
  <2>1. <<>> \in Seq(Txs)
    OBVIOUS
  <2>2. Parses(ledgerF') => ledgerF'.val = <<>>
    BY <1>2, <2>1, LedgerLanding DEF WriteEmptyLedger
  <2>3. loaded' = loaded
    BY <1>2 DEF WriteEmptyLedger
  <2> QED BY <2>2, <2>3, <1>k
<1>3. ASSUME NEW g \in Getters, Get(g)
      PROVE  Slots'
  <2>1. Kept
    BY <1>3 DEF Get, GetAnchor, ReadAnchorRecord, ReadReceipt, FetchTransaction,
       VerifyAgainstTip, ShowFile, NoAnswer, dirVars
  <2> QED BY <2>1, <1>k
<1>4. ASSUME NEW q \in Requests, SaveLedger(q)
      PROVE  Slots'
  <2>1. Parses(ledgerF') => ledgerF'.val = loaded[q]
    BY <1>4, <1>t, LedgerLanding DEF SaveLedger
  <2>2. loaded' = loaded
    BY <1>4 DEF SaveLedger
  <2> QED BY <2>1, <2>2, <1>k
<1>5. ASSUME NEW q \in Requests, OpenLedger(q)
      PROVE  Slots'
  <2>1. Kept
    BY <1>5, NothingToParse DEF OpenLedger
  <2> QED BY <2>1, <1>k
<1>6. ASSUME NEW q \in Requests, Fail(q)
      PROVE  Slots'
  <2>1. Kept
    BY <1>6 DEF Fail, dirVars
  <2> QED BY <2>1, <1>k
<1>7. ASSUME NEW q \in Requests, LoadForSubmit(q), ~Fail(q)
      PROVE  Slots'
  <2>1. Parses(ledgerF) /\ ledgerF' = ledgerF /\ pc[q] = "load" /\ Goto(q, "open")
    BY <1>7 DEF LoadForSubmit, dirVars
  <2>2. PICK t \in now..MaxTime :
          loaded' = [loaded EXCEPT ![q] =
            Append(ledgerF.val, [tx |-> q, slot |-> NextSlot(ledgerF.val, t),
                                 md |-> record[q]])]
    BY <1>7 DEF LoadForSubmit
  <2> DEFINE old == ledgerF.val
             e == [tx |-> q, slot |-> NextSlot(old, t), md |-> record[q]]
             more == Append(old, e)
  <2>3. t \in Nat /\ old \in Seq(Txs) /\ Settled(old)
    BY <1>t, <2>1, BoundsAssumption DEF Slots, Parts, LocalsOK
  <2>4. e \in Txs /\ e.tx = q /\ e.slot = NextSlot(old, t)
    BY <2>3, NextSlotType DEF Txs, Parts, LocalsOK
  <2>5. loaded' = [loaded EXCEPT ![q] = more]
    BY <2>2
  <2> HIDE DEF e, old
  <2>6. \A i \in DOMAIN old : old[i].tx # q
    BY <2>1, <2>3 DEF Settled, BeforeLoad
  <2>7. Ascending(more)
    BY <2>3, <2>4, <2>6, AppendAscends DEF Settled
  <2>8. StillSettled(more)
    <3> SUFFICES ASSUME NEW i \in DOMAIN more PROVE pc'[more[i].tx] \notin BeforeLoad
      BY <2>7 DEF StillSettled
    <3>1. DOMAIN more = 1..(Len(old) + 1) /\ more[Len(old) + 1] = e
          /\ DOMAIN old = 1..Len(old) /\ \A k \in 1..Len(old) : more[k] = old[k]
      BY <2>3
    <3>2. pc'[q] = "open"
      BY <2>1 DEF Goto, Parts, PCsOK, Procs
    <3>3. CASE i = Len(old) + 1
      BY <2>4, <3>1, <3>2, <3>3 DEF BeforeLoad
    <3>4. CASE i # Len(old) + 1
      BY <2>3, <3>1, <3>4, StaysSettled DEF StillSettled
    <3> QED BY <3>3, <3>4
  <2>9. \A r \in Requests : loaded'[r] = IF r = q THEN more ELSE loaded[r]
    BY <2>5 DEF Parts, LocalsOK, Procs
  <2> QED BY <1>s, <1>o, <2>1, <2>8, <2>9
<1>8. ASSUME NEW q \in Requests, Post(q)
      PROVE  Slots'
  <2>1. CASE SaveLedger(q) \/ OpenLedger(q) \/ Fail(q) \/ LoadForSubmit(q)
    BY <2>1, <1>4, <1>5, <1>6, <1>7
  <2>2. CASE ~(SaveLedger(q) \/ OpenLedger(q) \/ Fail(q) \/ LoadForSubmit(q))
    <3>1. Kept
      BY <1>8, <2>2 DEF Post, PostAnchor, ReadManifestKey, ReadStorageUri,
         ReadKeyEnvelope, WriteAnchorRecord, WriteReceipt, WriteMetadata, dirVars
    <3> QED BY <3>1, <1>k
  <2> QED BY <2>1, <2>2
<1>9. ASSUME Crash PROVE Slots'
  <2>1. Kept
    BY <1>9 DEF Crash, dirVars
  <2> QED BY <2>1, <1>k
<1> QED BY <1>1, <1>2, <1>3, <1>8, <1>9 DEF DirNext

\* Slots increase along every ledger text that parses and no submission is in
\* it twice, for any number of POSTs that overwrite each other's ledger, of
\* readers and of crashes (MockCardanoBackend.submit).
THEOREM LedgerMonotonic == Spec => []SlotsMonotonic
<1> DEFINE IInv == TypeOK /\ HoldsTx /\ Slots
<1>1. Init => IInv
  <2>1. Init => HoldsTx
    BY DEF Init, InitDir, HoldsTx, AfterLoad, Procs
  <2>2. Init => Slots
    BY NothingToParse DEF Init, InitDir, Slots, Settled, Ascending, Procs
  <2> QED BY <2>1, <2>2, InitType
<1>2. IInv /\ [Next]_vars => IInv'
  <2> SUFFICES ASSUME IInv, [Next]_vars PROVE IInv'
    OBVIOUS
  <2>1. TypeOK' /\ HoldsTx'
    BY NextType
  <2>2. CASE Next
    BY <2>1, <2>2, SlotsStep, TypeParts DEF Next, Parts
  <2>3. CASE UNCHANGED vars
    BY <2>1, <2>3 DEF vars, signVars, dirVars, Slots, Settled
  <2> QED BY <2>2, <2>3
<1>3. IInv => SlotsMonotonic
  BY DEF Slots, Settled, SlotsMonotonic
<1> QED BY <1>1, <1>2, <1>3, PTL DEF Spec

-----------------------------------------------------------------------------
(* GetNeverCreates.  A ledger file, once there, stays; a POST makes sure of *)
(* it before it writes a record; and a GET reads a record first.            *)

\* The labels a handler reaches only past a ledger that exists.
PastLedger == {"load", "fetch", "tip", "showRecord", "showReceipt",
               "showMetadata", "answered"} \cup AfterLoad

LedgerFirst ==
  /\ Exists(recordF) => Exists(ledgerF)
  /\ \A p \in Procs : pc[p] \in PastLedger => Exists(ledgerF)
  /\ \A g \in Getters : pc[g] \in {"readReceipt", "probe"} => Exists(ledgerF)

LEMMA WrittenExists ==
  ASSUME NEW f, NEW v, NEW tails, NEW g \in Landing(f, v, tails)
  PROVE  Exists(g)
  BY LandingCases DEF Exists, Whole, Garbled

\* No step removes the ledger.
LEMMA LedgerStays ==
  ASSUME DirNext \/ Crash, Exists(ledgerF)
  PROVE  Exists(ledgerF')
<1>1. Exists(Empty)
  BY DEF Exists, Empty
<1>2. ASSUME NEW p \in Procs,
             ProbeLedger(p) \/ CreateLedger(p) \/ WriteEmptyLedger(p)
      PROVE  Exists(ledgerF')
  BY <1>1, <1>2, WrittenExists
     DEF ProbeLedger, CreateLedger, WriteEmptyLedger, dirVars
<1>3. ASSUME NEW g \in Getters, Get(g)
      PROVE  Exists(ledgerF')
  BY <1>3 DEF Get, GetAnchor, ReadAnchorRecord, ReadReceipt, FetchTransaction,
     VerifyAgainstTip, ShowFile, NoAnswer, dirVars
<1>4. ASSUME NEW q \in Requests, Post(q)
      PROVE  Exists(ledgerF')
  BY <1>1, <1>4, WrittenExists DEF Post, PostAnchor, ReadManifestKey,
     ReadStorageUri, ReadKeyEnvelope, LoadForSubmit, Fail, OpenLedger,
     SaveLedger, WriteAnchorRecord, WriteReceipt, WriteMetadata, dirVars
<1>5. CASE Crash
  BY <1>5 DEF Crash, dirVars
<1> QED BY <1>2, <1>3, <1>4, <1>5 DEF DirNext

LEMMA LedgerFirstStep ==
  ASSUME Parts, LedgerFirst, GetNeverCreates, DirNext \/ Crash
  PROVE  LedgerFirst' /\ GetNeverCreates'
<1> USE DEF Parts, PCsOK, Procs
\* What one handler's step has to show: the record is written past the
\* ledger, and so is every label the handler moves to.
<1>s. ASSUME NEW p \in Procs, NEW l, Goto(p, l),
             Exists(recordF') => Exists(recordF) \/ Exists(ledgerF'),
             l \in PastLedger => Exists(ledgerF'),
             p \in Getters /\ l \in {"readReceipt", "probe"} => Exists(ledgerF'),
             p \in Getters => l \notin {"create", "createWrite"}
      PROVE  LedgerFirst' /\ GetNeverCreates'
  BY <1>s, LedgerStays DEF LedgerFirst, GetNeverCreates, Goto
<1>1. ASSUME NEW p \in Procs, ProbeLedger(p)
      PROVE  LedgerFirst' /\ GetNeverCreates'
  <2>1. ledgerF' = ledgerF /\ recordF' = recordF
    BY <1>1 DEF ProbeLedger, dirVars
  <2>2. CASE Exists(ledgerF)
    <3>1. Goto(p, AfterInit(p)) /\ AfterInit(p) \in {"load", "fetch"}
      BY <1>1, <2>2 DEF ProbeLedger, AfterInit
    <3> QED BY <1>s, <2>1, <2>2, <3>1
  <2>3. CASE ~Exists(ledgerF)
    <3>1. Goto(p, "create")
      BY <1>1, <2>3 DEF ProbeLedger
    <3>2. p \notin Getters
      BY <1>1, <2>3 DEF ProbeLedger, LedgerFirst
    <3> QED BY <1>s, <2>1, <3>1, <3>2 DEF PastLedger, AfterLoad
  <2> QED BY <2>2, <2>3
<1>2. ASSUME NEW p \in Procs, CreateLedger(p)
      PROVE  LedgerFirst' /\ GetNeverCreates'
  <2>1. Exists(ledgerF') /\ p \notin Getters /\ Goto(p, "createWrite")
    BY <1>2 DEF CreateLedger, GetNeverCreates, Exists, Empty
  <2> QED BY <1>s, <2>1
<1>3. ASSUME NEW p \in Procs, WriteEmptyLedger(p)
      PROVE  LedgerFirst' /\ GetNeverCreates'
  <2>1. Exists(ledgerF') /\ p \notin Getters /\ Goto(p, AfterInit(p))
    BY <1>3, WrittenExists DEF WriteEmptyLedger, GetNeverCreates
  <2> QED BY <1>s, <2>1
<1>4. ASSUME NEW q \in Requests, Fail(q)
      PROVE  LedgerFirst' /\ GetNeverCreates'
  <2>1. Goto(q, "failed") /\ recordF' = recordF /\ q \notin Getters
    BY <1>4, ProcsAssumption DEF Fail, dirVars
  <2> QED BY <1>s, <2>1 DEF PastLedger, AfterLoad
<1>5. ASSUME NEW q \in Requests,
             PostAnchor(q) \/ ReadManifestKey(q) \/ ReadStorageUri(q) \/ ReadKeyEnvelope(q),
             ~Fail(q)
      PROVE  LedgerFirst' /\ GetNeverCreates'
  <2>1. PICK l \in {"readMkey", "readUri", "readKey", "probe"} :
          Goto(q, l) /\ recordF' = recordF
    BY <1>5 DEF PostAnchor, ReadManifestKey, ReadStorageUri, ReadKeyEnvelope, dirVars
  <2>2. q \notin Getters
    BY ProcsAssumption
  <2> QED BY <1>s, <2>1, <2>2 DEF PastLedger, AfterLoad
<1>6. ASSUME NEW q \in Requests,
             \/ LoadForSubmit(q) \/ OpenLedger(q) \/ SaveLedger(q)
             \/ WriteAnchorRecord(q) \/ WriteReceipt(q) \/ WriteMetadata(q),
             ~Fail(q)
      PROVE  LedgerFirst' /\ GetNeverCreates'
  <2>1. pc[q] \in PastLedger
    BY <1>6 DEF LoadForSubmit, OpenLedger, SaveLedger, WriteAnchorRecord,
       WriteReceipt, WriteMetadata, PastLedger, AfterLoad
  <2>2. Exists(ledgerF')
    BY <2>1, LedgerStays DEF LedgerFirst
  <2>3. q \notin Getters
    BY ProcsAssumption
  <2>4. PICK l : Goto(q, l)
    BY <1>6 DEF LoadForSubmit, OpenLedger, SaveLedger, WriteAnchorRecord,
       WriteReceipt, WriteMetadata
  <2> QED BY <1>s, <2>2, <2>3, <2>4
<1>7. ASSUME NEW q \in Requests, Post(q)
      PROVE  LedgerFirst' /\ GetNeverCreates'
  BY <1>4, <1>5, <1>6, <1>7 DEF Post
<1>8. ASSUME NEW g \in Getters, Get(g)
      PROVE  LedgerFirst' /\ GetNeverCreates'
  <2>0. ledgerF' = ledgerF /\ recordF' = recordF
    BY <1>8 DEF Get, GetAnchor, ReadAnchorRecord, ReadReceipt, FetchTransaction,
       VerifyAgainstTip, ShowFile, NoAnswer, dirVars
  <2>1. CASE GetAnchor(g) \/ NoAnswer(g)
    <3>1. PICK l \in {"idle", "readRecord"} : Goto(g, l)
      BY <2>1 DEF GetAnchor, NoAnswer
    <3> QED BY <1>s, <2>0, <3>1 DEF PastLedger, AfterLoad
  <2>2. CASE ~(GetAnchor(g) \/ NoAnswer(g))
    <3>1. PICK l \in {"readReceipt", "probe", "tip", "showRecord", "showReceipt",
                      "showMetadata", "answered"} : Goto(g, l)
      BY <1>8, <2>2 DEF Get, ReadAnchorRecord, ReadReceipt, FetchTransaction,
         VerifyAgainstTip, ShowFile
    <3>2. \/ pc[g] = "readRecord" /\ Exists(recordF)
          \/ pc[g] \in {"readReceipt"} \cup PastLedger
      BY <1>8, <2>2 DEF Get, ReadAnchorRecord, ReadReceipt, FetchTransaction,
         VerifyAgainstTip, ShowFile, PastLedger, Parses, Exists
    <3>3. Exists(ledgerF')
      BY <2>0, <3>2 DEF LedgerFirst
    <3> QED BY <1>s, <3>1, <3>3
  <2> QED BY <2>1, <2>2
<1>9. ASSUME Crash
      PROVE  LedgerFirst' /\ GetNeverCreates'
  <2>1. ledgerF' = ledgerF /\ recordF' = recordF
    BY <1>9 DEF Crash, dirVars
  <2>2. \A p \in Procs : pc'[p] \in {"idle", "new", "failed"} \/ pc'[p] = pc[p]
    BY <1>9 DEF Crash
  <2>3. \A g \in Getters : pc'[g] = "idle"
    BY <1>9 DEF Crash
  <2> QED BY <2>1, <2>2, <2>3 DEF LedgerFirst, GetNeverCreates, PastLedger, AfterLoad
<1> QED BY <1>1, <1>2, <1>3, <1>7, <1>8, <1>9 DEF DirNext

\* No GET ever creates the ledger, whatever POSTs, other GETs and crashes it
\* meets: it builds the backend only after it has read a record, and a record
\* is written only past a ledger (MockCardanoBackend.__post_init__).
THEOREM ReadersNeverCreate == Spec => []GetNeverCreates
<1> DEFINE IInv == TypeOK /\ HoldsTx /\ LedgerFirst /\ GetNeverCreates
<1>1. Init => IInv
  <2>1. Init => HoldsTx
    BY DEF Init, InitDir, HoldsTx, AfterLoad, Procs
  <2>2. Init => LedgerFirst /\ GetNeverCreates
    BY ProcsAssumption DEF Init, InitDir, LedgerFirst, GetNeverCreates, PastLedger,
       AfterLoad, Exists, Absent, Procs
  <2> QED BY <2>1, <2>2, InitType
<1>2. IInv /\ [Next]_vars => IInv'
  <2> SUFFICES ASSUME IInv, [Next]_vars PROVE IInv'
    OBVIOUS
  <2>1. TypeOK' /\ HoldsTx'
    BY NextType
  <2>2. CASE Next
    BY <2>1, <2>2, LedgerFirstStep, TypeParts DEF Next, Parts
  <2>3. CASE UNCHANGED vars
    BY <2>1, <2>3 DEF vars, signVars, dirVars, LedgerFirst, GetNeverCreates
  <2> QED BY <2>2, <2>3
<1>3. IInv => GetNeverCreates
  OBVIOUS
<1> QED BY <1>1, <1>2, <1>3, PTL DEF Spec

-----------------------------------------------------------------------------
(* LossIsPartial.  Without a crash a POST that saved goes on to its end, so *)
(* whoever wrote the readable text is in it and is done when nobody is      *)
(* active; and a ledger reset to no transactions was reset by a POST that   *)
(* has yet to submit.                                                       *)

\* The labels past the save of the ledger.
Saved == {"openRecord", "saveRecord", "openReceipt", "saveReceipt",
          "openMetadata", "saveMetadata", "done"}

Lineage ==
  crashes = 0 /\ Parses(ledgerF) =>
    \/ /\ ledgerF.val = <<>>
       /\ \E q \in Requests : pc[q] \in {"load", "open", "save"}
    \/ \E q \in Requests : pc[q] \in Saved /\ TxNamed(ledgerF.val, q) # {}

\* A POST past its load submits the record it built, under its own name.
SubmitsOwn ==
  \A q \in Requests : pc[q] \in AfterLoad =>
    loaded[q] # <<>> /\ Submitted(q).tx = q /\ Submitted(q).md = record[q]

\* A POST that is past its load after a step was there before, with the same
\* record and copy, unless the step is its load.
LEMMA PastLoadKept ==
  ASSUME Parts, DirNext \/ Crash, NEW r \in Requests, pc'[r] \in AfterLoad,
         ~LoadForSubmit(r)
  PROVE  pc[r] \in AfterLoad /\ record'[r] = record[r] /\ loaded'[r] = loaded[r]
<1> USE DEF Parts, PCsOK, LocalsOK, Procs
<1>1. ASSUME NEW p \in Procs,
             ProbeLedger(p) \/ CreateLedger(p) \/ WriteEmptyLedger(p)
      PROVE  pc[r] \in AfterLoad /\ record' = record /\ loaded' = loaded
  BY <1>1 DEF ProbeLedger, CreateLedger, WriteEmptyLedger, Goto, AfterInit, AfterLoad
<1>2. ASSUME NEW g \in Getters, Get(g)
      PROVE  pc[r] \in AfterLoad /\ record' = record /\ loaded' = loaded
  <2>1. g # r
    BY ProcsAssumption
  <2> QED BY <1>2, <2>1 DEF Get, GetAnchor, ReadAnchorRecord, ReadReceipt,
          FetchTransaction, VerifyAgainstTip, ShowFile, NoAnswer, Goto
<1>3. ASSUME NEW q \in Requests, Post(q), ~LoadForSubmit(q)
      PROVE  pc[r] \in AfterLoad /\ record'[r] = record[r] /\ loaded' = loaded
  BY <1>3 DEF Post, PostAnchor, ReadManifestKey, ReadStorageUri, ReadKeyEnvelope,
     Fail, OpenLedger, SaveLedger, WriteAnchorRecord, WriteReceipt,
     WriteMetadata, Goto, AfterLoad
<1>4. ASSUME NEW q \in Requests, LoadForSubmit(q)
      PROVE  pc[r] \in AfterLoad /\ record' = record /\ loaded'[r] = loaded[r]
  <2>1. q # r
    BY <1>4
  <2>2. pc[r] \in AfterLoad /\ record' = record
    BY <1>4, <2>1 DEF LoadForSubmit, Fail, Goto, AfterLoad
  <2>3. CASE loaded' = loaded
    BY <2>2, <2>3
  <2>4. CASE loaded' # loaded
    <3>1. PICK txs : loaded' = [loaded EXCEPT ![q] = txs]
      BY <1>4, <2>4 DEF LoadForSubmit, Fail
    <3> QED BY <2>1, <2>2, <3>1
  <2> QED BY <2>3, <2>4
<1>5. CASE Crash
  BY <1>5, ProcsAssumption DEF Crash, AfterLoad
<1> QED BY <1>1, <1>2, <1>3, <1>4, <1>5 DEF DirNext

\* What a load that succeeds appends to what it read.
LEMMA LoadAppends ==
  ASSUME Parts, NEW q \in Requests, LoadForSubmit(q), pc'[q] # "failed"
  PROVE  \E t \in Nat, e \in Txs :
           /\ pc[q] = "load" /\ Goto(q, "open") /\ Parses(ledgerF)
           /\ e = [tx |-> q, slot |-> NextSlot(ledgerF.val, t), md |-> record[q]]
           /\ loaded' = [loaded EXCEPT ![q] = Append(ledgerF.val, e)]
           /\ loaded'[q] = Append(ledgerF.val, e)
           /\ UNCHANGED <<dirVars, record>>
<1> USE DEF Parts, PCsOK, LocalsOK, Procs
<1>1. Parses(ledgerF) /\ Goto(q, "open") /\ pc[q] = "load" /\ UNCHANGED <<dirVars, record>>
  BY DEF LoadForSubmit, Fail, Goto
<1>2. ledgerF.val \in Seq(Txs)
  BY <1>1, FileOfCases DEF FilesOK
<1>3. PICK t \in now..MaxTime :
        loaded' = [loaded EXCEPT ![q] =
          Append(ledgerF.val, [tx |-> q, slot |-> NextSlot(ledgerF.val, t),
                               md |-> record[q]])]
  BY <1>1 DEF LoadForSubmit, Fail, Goto
<1> DEFINE e == [tx |-> q, slot |-> NextSlot(ledgerF.val, t), md |-> record[q]]
<1>4. t \in Nat
  BY BoundsAssumption
<1>5. e \in Txs
  BY <1>2, <1>4, NextSlotType DEF Txs
<1>6. loaded'[q] = Append(ledgerF.val, e)
  BY <1>3
<1> QED BY <1>1, <1>3, <1>4, <1>5, <1>6

\* The last transaction after an append.
LEMMA LastOfAppend ==
  ASSUME NEW S, NEW txs \in Seq(S), NEW e \in S
  PROVE  Append(txs, e) # <<>> /\ Append(txs, e)[Len(Append(txs, e))] = e
  OBVIOUS

LEMMA SubmitsOwnStep ==
  ASSUME Parts, SubmitsOwn, DirNext \/ Crash
  PROVE  SubmitsOwn'
<1> SUFFICES ASSUME NEW q \in Requests, pc'[q] \in AfterLoad
             PROVE  /\ loaded'[q] # <<>>
                    /\ Submitted(q)'.tx = q /\ Submitted(q)'.md = record'[q]
  BY DEF SubmitsOwn
<1>1. CASE ~LoadForSubmit(q)
  BY <1>1, PastLoadKept DEF SubmitsOwn, Submitted
<1>2. CASE LoadForSubmit(q)
  <2>1. PICK t \in Nat, e \in Txs :
          /\ Parses(ledgerF)
          /\ e = [tx |-> q, slot |-> NextSlot(ledgerF.val, t), md |-> record[q]]
          /\ loaded'[q] = Append(ledgerF.val, e)
          /\ record' = record
    BY <1>2, LoadAppends DEF AfterLoad
  <2>2. ledgerF.val \in Seq(Txs)
    BY <2>1, FileOfCases DEF Parts, FilesOK
  <2>3. e.tx = q /\ e.md = record'[q]
    BY <2>1
  <2>4. loaded'[q] # <<>> /\ Submitted(q)' = e
    BY <2>1, <2>2, LastOfAppend DEF Submitted
  <2> QED BY <2>3, <2>4
<1> QED BY <1>1, <1>2

\* Without a crash, a POST past the save of the ledger stays there.
LEMMA SavedStays ==
  ASSUME Parts, DirNext, NEW r \in Requests, pc[r] \in Saved
  PROVE  pc'[r] \in Saved
<1> USE DEF Parts, PCsOK, Procs
<1>1. ASSUME NEW p \in Procs,
             ProbeLedger(p) \/ CreateLedger(p) \/ WriteEmptyLedger(p)
      PROVE  pc'[r] \in Saved
  BY <1>1 DEF ProbeLedger, CreateLedger, WriteEmptyLedger, Goto, Saved
<1>2. ASSUME NEW g \in Getters, Get(g)
      PROVE  pc'[r] \in Saved
  <2>1. g # r
    BY ProcsAssumption
  <2> QED BY <1>2, <2>1 DEF Get, GetAnchor, ReadAnchorRecord, ReadReceipt,
          FetchTransaction, VerifyAgainstTip, ShowFile, NoAnswer, Goto
<1>3. ASSUME NEW q \in Requests, Post(q)
      PROVE  pc'[r] \in Saved
  BY <1>3 DEF Post, PostAnchor, ReadManifestKey, ReadStorageUri, ReadKeyEnvelope,
     LoadForSubmit, Fail, OpenLedger, SaveLedger, WriteAnchorRecord, WriteReceipt,
     WriteMetadata, Goto, Saved
<1> QED BY <1>1, <1>2, <1>3 DEF DirNext

\* Only the save puts transactions into the ledger, and only a POST that is
\* about to load it resets it.
LEMMA LineageStep ==
  ASSUME Parts, SubmitsOwn, GetNeverCreates, Lineage, DirNext \/ Crash
  PROVE  Lineage'
<1> USE DEF Parts, PCsOK, Procs
<1> DEFINE Loading == {"load", "open", "save"}
\* The ledger file is the same one, and nobody who reset it left.
<1>k. ASSUME DirNext, ledgerF' = ledgerF, crashes' = crashes,
             \A q \in Requests : Parses(ledgerF) /\ pc[q] \in Loading => pc'[q] \in Loading
      PROVE  Lineage'
  BY <1>k, SavedStays DEF Lineage
<1>n. ASSUME ~Parses(ledgerF') PROVE Lineage'
  BY <1>n DEF Lineage
<1>1. ASSUME NEW p \in Procs, ProbeLedger(p)
      PROVE  Lineage'
  BY <1>1, <1>k DEF ProbeLedger, dirVars, Goto, DirNext
<1>2. ASSUME NEW p \in Procs, CreateLedger(p)
      PROVE  Lineage'
  BY <1>2, <1>n, NothingToParse DEF CreateLedger
<1>3. ASSUME NEW p \in Procs, WriteEmptyLedger(p)
      PROVE  Lineage'
  <2>1. p \in Requests /\ pc'[p] = "load"
    BY <1>3 DEF WriteEmptyLedger, GetNeverCreates, AfterInit, Goto
  <2>2. <<>> \in Seq(Txs)
    OBVIOUS
  <2>3. Parses(ledgerF') => ledgerF'.val = <<>>
    BY <1>3, <2>2, LedgerLanding DEF WriteEmptyLedger
  <2> QED BY <2>1, <2>3 DEF Lineage
<1>4. ASSUME NEW g \in Getters, Get(g)
      PROVE  Lineage'
  <2>1. \A q \in Requests : q # g
    BY ProcsAssumption
  <2>2. ledgerF' = ledgerF /\ crashes' = crashes
        /\ \A q \in Requests : pc'[q] = pc[q]
    BY <1>4, <2>1 DEF Get, GetAnchor, ReadAnchorRecord, ReadReceipt,
       FetchTransaction, VerifyAgainstTip, ShowFile, NoAnswer, Goto, dirVars
  <2> QED BY <1>4, <1>k, <2>2 DEF DirNext
<1>5. ASSUME NEW q \in Requests, SaveLedger(q)
      PROVE  Lineage'
  <2>1. loaded[q] \in Seq(Txs) /\ loaded[q] # <<>> /\ Submitted(q).tx = q
    BY <1>5 DEF SaveLedger, SubmitsOwn, AfterLoad, LocalsOK
  <2>2. Parses(ledgerF') => ledgerF'.val = loaded[q]
    BY <1>5, <2>1, LedgerLanding DEF SaveLedger
  <2>3. pc'[q] \in Saved
    BY <1>5 DEF SaveLedger, Goto, Saved
  <2>4. Submitted(q) \in TxNamed(loaded[q], q)
    BY <2>1 DEF Submitted, TxNamed
  <2> QED BY <2>2, <2>3, <2>4 DEF Lineage
<1>6. ASSUME NEW q \in Requests, OpenLedger(q)
      PROVE  Lineage'
  BY <1>6, <1>n, NothingToParse DEF OpenLedger
<1>7. ASSUME NEW q \in Requests, Post(q), ~SaveLedger(q), ~OpenLedger(q)
      PROVE  Lineage'
  <2>1. ledgerF' = ledgerF /\ crashes' = crashes
    BY <1>7 DEF Post, PostAnchor, ReadManifestKey, ReadStorageUri, ReadKeyEnvelope,
       LoadForSubmit, Fail, WriteAnchorRecord, WriteReceipt, WriteMetadata, dirVars
  <2>2. \A r \in Requests : Parses(ledgerF) /\ pc[r] \in Loading => pc'[r] \in Loading
    BY <1>7 DEF Post, PostAnchor, ReadManifestKey, ReadStorageUri, ReadKeyEnvelope,
       LoadForSubmit, Fail, WriteAnchorRecord, WriteReceipt, WriteMetadata, Goto
  <2> QED BY <1>7, <1>k, <2>1, <2>2 DEF DirNext
<1>8. CASE Crash
  BY <1>8 DEF Crash, Lineage, LocalsOK
<1> QED BY <1>1, <1>2, <1>3, <1>4, <1>5, <1>6, <1>7, <1>8 DEF DirNext

\* Any number of POSTs at a time, as long as nothing crashes: when no POST is
\* active and the ledger can be read, it holds a transaction of a POST that
\* succeeded (MockCardanoBackend.submit and _save, which lock nothing).
THEOREM SomebodySurvives == Spec => [](crashes = 0 => LossIsPartial)
<1> DEFINE IInv == TypeOK /\ HoldsTx /\ LedgerFirst /\ GetNeverCreates
                   /\ SubmitsOwn /\ Lineage
<1>1. Init => IInv
  <2>1. Init => HoldsTx /\ SubmitsOwn
    BY DEF Init, InitDir, HoldsTx, SubmitsOwn, AfterLoad, Procs
  <2>2. Init => LedgerFirst /\ GetNeverCreates
    BY ProcsAssumption DEF Init, InitDir, LedgerFirst, GetNeverCreates, PastLedger,
       AfterLoad, Exists, Absent, Procs
  <2>3. Init => Lineage
    BY NothingToParse DEF Init, InitDir, Lineage
  <2> QED BY <2>1, <2>2, <2>3, InitType
<1>2. IInv /\ [Next]_vars => IInv'
  <2> SUFFICES ASSUME IInv, [Next]_vars PROVE IInv'
    OBVIOUS
  <2>1. TypeOK' /\ HoldsTx'
    BY NextType
  <2>2. CASE Next
    <3>1. Parts /\ (DirNext \/ Crash)
      BY <2>2, TypeParts DEF Next, Parts
    <3> QED BY <2>1, <3>1, LedgerFirstStep, SubmitsOwnStep, LineageStep
  <2>3. CASE UNCHANGED vars
    BY <2>1, <2>3 DEF vars, signVars, dirVars, LedgerFirst, GetNeverCreates,
       SubmitsOwn, Submitted, Lineage
  <2> QED BY <2>2, <2>3
<1>3. IInv => (crashes = 0 => LossIsPartial)
  BY DEF Lineage, LossIsPartial, Active, Saved
<1> QED BY <1>1, <1>2, <1>3, PTL DEF Spec

-----------------------------------------------------------------------------
(* One POST at a time.  The ledger file is then what was last logged, or is *)
(* between a truncation and a write of the one active POST, or was left     *)
(* truncated by one that died.                                              *)

OnePost == \A q, r \in Active : q = r

\* The copy in memory is the log and one more transaction at a later slot.
Extends(q) ==
  /\ loaded[q] = Append(logged, Submitted(q))
  /\ logged # <<>> => Submitted(q).slot > logged[Len(logged)].slot

LedgerAt(q) ==
  /\ pc[q] = "create" => ~Exists(ledgerF)
  /\ pc[q] = "createWrite" => ledgerF = Empty /\ logged = <<>>
  /\ pc[q] \in {"open", "save"} => Extends(q)
  /\ pc[q] = "save" => ledgerF = Empty
  /\ pc[q] \in Saved \ {"done"} => ledgerF = Whole(loaded[q])

LedgerIsLog ==
  /\ Parses(ledgerF) => ledgerF.val = logged
  /\ ~Exists(ledgerF) => logged = <<>>
  /\ \A q \in Requests : LedgerAt(q)

\* The three files hold what the active POST has written so far.
FilesAt(q) ==
  /\ pc[q] = "saveRecord" => recordF = Empty
  /\ pc[q] \in {"openReceipt", "saveReceipt", "openMetadata", "saveMetadata"} =>
       recordF = Whole(record[q])
  /\ pc[q] = "saveReceipt" => receiptF = Empty
  /\ pc[q] \in {"openMetadata", "saveMetadata"} => receiptF = Whole(Receipt(q))
  /\ pc[q] = "saveMetadata" => metadataF = Empty

FilesFollow == \A q \in Requests : FilesAt(q)

Serial == OnePost /\ LedgerIsLog /\ FilesFollow

Idle == {"new", "done", "failed"}

\* A POST is admitted only when no other is active.
LEMMA AdmittedAlone ==
  ASSUME Threads <= 1, OnePost, NEW q \in Requests, PostAnchor(q)
  PROVE  Active = {}
<1> SUFFICES ASSUME NEW a \in Active PROVE FALSE
  OBVIOUS
<1>1. Active = {a}
  BY DEF OnePost
<1>2. Cardinality(Active) = 1
  BY <1>1, FS_Singleton
<1> QED BY <1>2, ThreadsAssumption DEF PostAnchor

\* What the step of the active POST has to show: the facts about itself.  The
\* others are idle, so nothing is claimed of them.
LEMMA ActiveStep ==
  ASSUME Parts, Serial, NEW q \in Active, NEW l, Goto(q, l),
         Parses(ledgerF') => ledgerF'.val = logged',
         ~Exists(ledgerF') => logged' = <<>>,
         LedgerAt(q)', FilesAt(q)'
  PROVE  Serial'
<1> USE DEF Parts, PCsOK, Procs
<1>1. q \in Requests
  BY DEF Active
<1>2. \A r \in Requests : r # q => pc'[r] \in Idle
  BY DEF Serial, OnePost, Active, Goto, Idle
<1>3. OnePost'
  BY <1>2 DEF OnePost, Active, Idle
<1>4. \A r \in Requests : r # q => LedgerAt(r)' /\ FilesAt(r)'
  BY <1>2 DEF Idle, LedgerAt, FilesAt, Saved
<1> QED BY <1>1, <1>3, <1>4 DEF Serial, LedgerIsLog, FilesFollow

\* A step that leaves all files and all POSTs where they are.
LEMMA QuietStep ==
  ASSUME Parts, Serial, UNCHANGED <<dirVars, record, loaded>>, Observe,
         \A q \in Requests : pc'[q] = pc[q] \/ pc'[q] \in Idle
  PROVE  Serial' /\ logged' = logged
<1>1. logged' = logged
  BY DEF Observe, Serial, LedgerIsLog, dirVars
<1>2. OnePost'
  BY DEF Serial, OnePost, Active, Idle
<1>3. \A q \in Requests : LedgerAt(q)'
  BY <1>1 DEF Serial, LedgerIsLog, LedgerAt, Extends, Submitted, Saved, Idle, dirVars
<1>4. \A q \in Requests : FilesAt(q)'
  BY DEF Serial, FilesFollow, FilesAt, Receipt, Submitted, Idle, dirVars
<1> QED BY <1>1, <1>2, <1>3, <1>4 DEF Serial, LedgerIsLog, FilesFollow, dirVars

\* A step that changes neither the ledger file nor any copy in memory logs
\* nothing and keeps what holds of the active POST's ledger.
LEMMA SameLedger ==
  ASSUME Serial, ledgerF' = ledgerF, Observe
  PROVE  /\ logged' = logged
         /\ Parses(ledgerF') => ledgerF'.val = logged'
         /\ ~Exists(ledgerF') => logged' = <<>>
  BY DEF Serial, LedgerIsLog, Observe

LEMMA SerialLedgerInit ==
  ASSUME Parts, Serial, GetNeverCreates, LedgerFirst, Observe, NEW p \in Procs,
         ProbeLedger(p) \/ CreateLedger(p) \/ WriteEmptyLedger(p)
  PROVE  Serial' /\ logged' = logged
<1> USE DEF Parts, PCsOK, Procs
<1>1. CASE p \in Getters
  <2>1. ProbeLedger(p) /\ \A q \in Requests : q # p
    BY <1>1, ProcsAssumption DEF CreateLedger, WriteEmptyLedger, GetNeverCreates
  <2>2. \A q \in Requests : pc'[q] = pc[q]
    BY <2>1 DEF ProbeLedger, Goto
  <2> QED BY <2>1, <2>2, QuietStep DEF ProbeLedger, dirVars
<1>2. CASE p \in Requests
  <2>0. p \in Active
    BY <1>2 DEF Active, ProbeLedger, CreateLedger, WriteEmptyLedger
  <2>1. CASE ProbeLedger(p)
    <3>1. Goto(p, IF Exists(ledgerF) THEN "load" ELSE "create")
      BY <1>2, <2>1 DEF ProbeLedger, AfterInit
    <3>2. ledgerF' = ledgerF
      BY <2>1 DEF ProbeLedger, dirVars
    <3>3. LedgerAt(p)' /\ FilesAt(p)'
      BY <3>1, <3>2 DEF Goto, LedgerAt, FilesAt, Saved
    <3> QED BY <2>0, <3>1, <3>2, <3>3, SameLedger, ActiveStep
  <2>2. CASE CreateLedger(p)
    <3>1. Goto(p, "createWrite") /\ ledgerF' = Empty
      BY <2>2 DEF CreateLedger
    <3>2. logged = <<>>
      BY <1>2, <2>2 DEF CreateLedger, Serial, LedgerIsLog, LedgerAt
    <3>3. logged' = logged
      BY <3>1, NothingToParse DEF Observe
    <3>4. LedgerAt(p)' /\ FilesAt(p)'
      BY <3>1, <3>2, <3>3 DEF Goto, LedgerAt, FilesAt, Saved
    <3>5. Exists(Empty)
      BY DEF Exists, Empty
    <3> QED BY <2>0, <3>1, <3>3, <3>4, <3>5, NothingToParse, ActiveStep
  <2>3. CASE WriteEmptyLedger(p)
    <3>1. Goto(p, "load")
      BY <1>2, <2>3 DEF WriteEmptyLedger, AfterInit
    <3>2. ledgerF = Empty /\ logged = <<>>
      BY <1>2, <2>3 DEF WriteEmptyLedger, Serial, LedgerIsLog, LedgerAt
    <3>3. ledgerF' = Whole(<<>>)
      BY <2>3, <3>2 DEF WriteEmptyLedger, Landing, Empty
    <3>4. logged' = logged /\ Parses(ledgerF') /\ ledgerF'.val = <<>>
      BY <3>2, <3>3 DEF Observe, Whole, Parses
    <3>5. LedgerAt(p)' /\ FilesAt(p)'
      BY <3>1 DEF Goto, LedgerAt, FilesAt, Saved
    <3> QED BY <2>0, <3>1, <3>2, <3>4, <3>5, ActiveStep
  <2> QED BY <2>1, <2>2, <2>3
<1> QED BY <1>1, <1>2

\* The reads of a POST up to its key: files, ledger and log are left alone.
LEMMA SerialReads ==
  ASSUME Parts, Serial, Observe, NEW q \in Active, NEW l, Goto(q, l),
         l \in {"readUri", "readKey", "probe", "failed"}, UNCHANGED dirVars
  PROVE  Serial' /\ logged' = logged
<1>1. ledgerF' = ledgerF
  BY DEF dirVars
<1>2. q \in Requests
  BY DEF Active
<1>3. pc'[q] = l
  BY <1>2 DEF Goto, Parts, PCsOK, Procs
<1>4. LedgerAt(q)' /\ FilesAt(q)'
  BY <1>3 DEF LedgerAt, FilesAt, Saved
<1> QED BY <1>1, <1>4, SameLedger, ActiveStep

\* The load appends to the log's own text, at a later slot.
LEMMA SerialLoad ==
  ASSUME Parts, Serial, Observe, NEW q \in Active, LoadForSubmit(q), pc'[q] # "failed"
  PROVE  Serial' /\ logged' = logged
<1> USE DEF Parts, PCsOK, Procs
<1>1. q \in Requests
  BY DEF Active
<1>2. PICK t \in Nat, e \in Txs :
        /\ Goto(q, "open") /\ Parses(ledgerF)
        /\ e = [tx |-> q, slot |-> NextSlot(ledgerF.val, t), md |-> record[q]]
        /\ loaded'[q] = Append(ledgerF.val, e)
        /\ UNCHANGED <<dirVars, record>>
  BY <1>1, LoadAppends
<1>3. ledgerF' = ledgerF
  BY <1>2 DEF dirVars
<1>4. ledgerF.val = logged /\ logged' = logged
  BY <1>2, <1>3, SameLedger DEF Serial, LedgerIsLog
<1>5. logged \in Seq(Txs)
  BY <1>2, <1>4, FileOfCases DEF FilesOK
<1>6. Submitted(q)' = e
  BY <1>2, <1>4, <1>5, LastOfAppend DEF Submitted
<1>7. logged # <<>> => e.slot > logged[Len(logged)].slot
  <2> SUFFICES ASSUME logged # <<>> PROVE e.slot > logged[Len(logged)].slot
    OBVIOUS
  <2>1. Len(logged) \in DOMAIN logged
    BY <1>5
  <2>2. logged[Len(logged)] \in Txs
    BY <1>5, <2>1
  <2>3. e.slot = logged[Len(logged)].slot + 1
    BY <1>2, <1>4 DEF NextSlot
  <2> QED BY <2>2, <2>3 DEF Txs
<1>8. Extends(q)'
  BY <1>2, <1>4, <1>6, <1>7 DEF Extends
<1>9. LedgerAt(q)' /\ FilesAt(q)'
  BY <1>1, <1>2, <1>8 DEF Goto, LedgerAt, FilesAt, Saved
<1> QED BY <1>2, <1>3, <1>9, SameLedger, ActiveStep

\* The save is the one step that logs: it appends one transaction.
LEMMA SerialSave ==
  ASSUME Parts, Serial, HoldsTx, logged \in Seq(Txs), Observe,
         NEW q \in Active, SaveLedger(q)
  PROVE  Serial' /\ Log!Next
<1> USE DEF Parts, PCsOK, Procs
<1>1. q \in Requests /\ pc[q] = "save" /\ Goto(q, "openRecord")
      /\ UNCHANGED <<record, loaded>>
  BY DEF Active, SaveLedger
<1>2. ledgerF = Empty /\ Extends(q)
  BY <1>1 DEF Serial, LedgerIsLog, LedgerAt
<1>3. ledgerF' = Whole(loaded[q])
  BY <1>2 DEF SaveLedger, Landing, Empty
<1>4. logged' = loaded[q] /\ Parses(ledgerF') /\ ledgerF'.val = logged' /\ Exists(ledgerF')
  BY <1>3 DEF Observe, Whole, Parses, Exists
<1>5. LedgerAt(q)' /\ FilesAt(q)'
  BY <1>1, <1>3 DEF Goto, LedgerAt, FilesAt, Saved
<1>6. Serial'
  BY <1>1, <1>4, <1>5, ActiveStep
<1>7. Submitted(q) \in Txs
  BY <1>1 DEF HoldsTx, AfterLoad, LocalsOK, Submitted
<1>8. logged' = Append(logged, Submitted(q))
  BY <1>2, <1>4 DEF Extends
<1>9. Len(logged') = Len(logged) + 1 /\ logged'[Len(logged')] = Submitted(q)
  BY <1>7, <1>8
<1> QED BY <1>2, <1>6, <1>7, <1>8, <1>9 DEF Extends, Log!Next, Log!Submit

\* The truncation before the save: the log is still in the copy.
LEMMA SerialOpen ==
  ASSUME Parts, Serial, Observe, NEW q \in Active, OpenLedger(q)
  PROVE  Serial' /\ logged' = logged
<1> USE DEF Parts, PCsOK, Procs
<1>1. q \in Requests /\ pc[q] = "open" /\ Goto(q, "save") /\ ledgerF' = Empty
      /\ UNCHANGED <<record, loaded>>
  BY DEF Active, OpenLedger
<1>2. logged' = logged /\ ~Parses(ledgerF') /\ Exists(ledgerF')
  BY <1>1, NothingToParse DEF Observe, Exists, Empty
<1>3. Extends(q)'
  BY <1>1, <1>2 DEF Serial, LedgerIsLog, LedgerAt, Extends, Submitted
<1>4. LedgerAt(q)' /\ FilesAt(q)'
  BY <1>1, <1>3 DEF Goto, LedgerAt, FilesAt, Saved
<1> QED BY <1>1, <1>2, <1>4, ActiveStep

\* The three files past the ledger, each truncated and then written whole.
LEMMA SerialFiles ==
  ASSUME Parts, Serial, Observe, NEW q \in Active,
         WriteAnchorRecord(q) \/ WriteReceipt(q) \/ WriteMetadata(q)
  PROVE  Serial' /\ logged' = logged
<1> USE DEF Parts, PCsOK, Procs
<1>1. q \in Requests /\ UNCHANGED <<ledgerF, record, loaded>>
  BY DEF Active, WriteAnchorRecord, WriteReceipt, WriteMetadata
<1>2. LedgerAt(q) /\ FilesAt(q)
  BY <1>1 DEF Serial, LedgerIsLog, FilesFollow
<1>3. Receipt(q)' = Receipt(q)
  BY <1>1 DEF Receipt, Submitted
<1>s. ASSUME NEW l, Goto(q, l), l \in Saved, pc[q] \in Saved \ {"done"}, FilesAt(q)'
      PROVE  Serial' /\ logged' = logged
  <2>1. LedgerAt(q)'
    BY <1>1, <1>2, <1>s DEF Goto, LedgerAt, Saved
  <2> QED BY <1>1, <1>s, <2>1, SameLedger, ActiveStep
<1>4. CASE WriteAnchorRecord(q)
  <2>1. \/ pc[q] = "openRecord" /\ Goto(q, "saveRecord") /\ recordF' = Empty
        \/ pc[q] = "saveRecord" /\ Goto(q, "openReceipt") /\ recordF' = Whole(record[q])
    BY <1>2, <1>4 DEF WriteAnchorRecord, FilesAt, Landing, Empty
  <2>2. FilesAt(q)'
    BY <1>1, <2>1 DEF Goto, FilesAt
  <2> QED BY <1>s, <2>1, <2>2 DEF Saved
<1>5. CASE WriteReceipt(q)
  <2>1. \/ pc[q] = "openReceipt" /\ Goto(q, "saveReceipt") /\ receiptF' = Empty
        \/ pc[q] = "saveReceipt" /\ Goto(q, "openMetadata") /\ receiptF' = Whole(Receipt(q))
    BY <1>2, <1>5 DEF WriteReceipt, FilesAt, Landing, Empty
  <2>2. recordF' = recordF
    BY <1>5 DEF WriteReceipt
  <2>3. FilesAt(q)'
    BY <1>1, <1>2, <1>3, <2>1, <2>2 DEF Goto, FilesAt
  <2> QED BY <1>s, <2>1, <2>3 DEF Saved
<1>6. CASE WriteMetadata(q)
  <2>1. \/ pc[q] = "openMetadata" /\ Goto(q, "saveMetadata") /\ metadataF' = Empty
        \/ pc[q] = "saveMetadata" /\ Goto(q, "done")
    BY <1>6 DEF WriteMetadata
  <2>2. recordF' = recordF /\ receiptF' = receiptF
    BY <1>6 DEF WriteMetadata
  <2>3. FilesAt(q)'
    BY <1>1, <1>2, <1>3, <2>1, <2>2 DEF Goto, FilesAt
  <2> QED BY <1>s, <2>1, <2>3 DEF Saved
<1> QED BY <1>4, <1>5, <1>6

\* Every step keeps the serial invariant and is a step of the log or leaves
\* the log alone.
LEMMA SerialStep ==
  ASSUME Threads <= 1, Parts, HoldsTx, LedgerFirst, GetNeverCreates,
         logged \in Seq(Txs), Serial, Next
  PROVE  Serial' /\ (Log!Next \/ logged' = logged)
<1> USE DEF Parts, PCsOK, Procs
<1>1. ASSUME NEW p \in Procs,
             ProbeLedger(p) \/ CreateLedger(p) \/ WriteEmptyLedger(p)
      PROVE  Serial' /\ logged' = logged
  BY <1>1, SerialLedgerInit DEF Next
<1>2. ASSUME NEW g \in Getters, Get(g)
      PROVE  Serial' /\ logged' = logged
  <2>1. \A q \in Requests : q # g
    BY ProcsAssumption
  <2>2. UNCHANGED <<dirVars, record, loaded>> /\ \A q \in Requests : pc'[q] = pc[q]
    BY <1>2, <2>1 DEF Get, GetAnchor, ReadAnchorRecord, ReadReceipt,
       FetchTransaction, VerifyAgainstTip, ShowFile, NoAnswer, Goto
  <2> QED BY <2>2, QuietStep DEF Next
<1>3. ASSUME Crash PROVE Serial' /\ logged' = logged
  <2>1. \A q \in Requests : pc'[q] = pc[q] \/ pc'[q] \in Idle
    BY <1>3, ProcsAssumption DEF Crash, Idle
  <2> QED BY <1>3, <2>1, QuietStep DEF Next, Crash
<1>4. ASSUME NEW q \in Requests, PostAnchor(q)
      PROVE  Serial' /\ logged' = logged
  <2>1. Active = {}
    BY <1>4, AdmittedAlone DEF Serial
  <2>2. \A r \in Requests : IF r = q THEN pc'[r] = "readMkey" ELSE pc'[r] \in Idle
    BY <1>4, <2>1 DEF PostAnchor, Goto, Active, Idle
  <2>3. OnePost'
    BY <2>2 DEF OnePost, Active, Idle
  <2>4. \A r \in Requests : LedgerAt(r)' /\ FilesAt(r)'
    BY <2>2 DEF LedgerAt, FilesAt, Saved, Idle
  <2>5. ledgerF' = ledgerF
    BY <1>4 DEF PostAnchor
  <2> QED BY <2>3, <2>4, <2>5, SameLedger DEF Next, Serial, LedgerIsLog, FilesFollow
<1>5. ASSUME NEW q \in Requests, Post(q), ~PostAnchor(q)
      PROVE  Serial' /\ (Log!Next \/ logged' = logged)
  <2>1. q \in Active
    BY <1>5 DEF Active, Post, ReadManifestKey, ReadStorageUri, ReadKeyEnvelope,
       LoadForSubmit, Fail, OpenLedger, SaveLedger, WriteAnchorRecord, WriteReceipt,
       WriteMetadata
  <2>2. CASE SaveLedger(q)
    BY <2>1, <2>2, SerialSave DEF Next
  <2>3. CASE LoadForSubmit(q) /\ pc'[q] # "failed"
    BY <2>1, <2>3, SerialLoad DEF Next
  <2>4. CASE OpenLedger(q) \/ WriteAnchorRecord(q) \/ WriteReceipt(q) \/ WriteMetadata(q)
    BY <2>1, <2>4, SerialOpen, SerialFiles DEF Next
  <2>5. CASE ReadManifestKey(q) \/ ReadStorageUri(q) \/ ReadKeyEnvelope(q)
             \/ (LoadForSubmit(q) /\ pc'[q] = "failed")
    <3>1. PICK l \in {"readUri", "readKey", "probe", "failed"} :
            Goto(q, l) /\ UNCHANGED dirVars
      BY <2>5 DEF ReadManifestKey, ReadStorageUri, ReadKeyEnvelope, LoadForSubmit,
         Fail, Goto
    <3> QED BY <2>1, <3>1, SerialReads DEF Next
  <2> QED BY <1>5, <2>2, <2>3, <2>4, <2>5 DEF Post
<1> QED BY <1>1, <1>2, <1>3, <1>4, <1>5 DEF Next, DirNext

SerialInv == TypeOK /\ HoldsTx /\ SubmitsOwn /\ Slots /\ LedgerFirst
             /\ GetNeverCreates /\ Serial

LEMMA SerialInit == Init => SerialInv
<1> SUFFICES ASSUME Init PROVE SerialInv
  OBVIOUS
<1> USE DEF Init, InitDir, Procs
<1>1. HoldsTx /\ SubmitsOwn /\ Slots
  BY NothingToParse DEF HoldsTx, SubmitsOwn, AfterLoad, Slots, Settled, Ascending
<1>2. LedgerFirst /\ GetNeverCreates
  BY ProcsAssumption DEF LedgerFirst, GetNeverCreates, PastLedger, AfterLoad, Exists,
     Absent
<1>3. Serial
  BY NothingToParse DEF Serial, OnePost, Active, LedgerIsLog, LedgerAt, Saved,
     FilesFollow, FilesAt
<1> QED BY <1>1, <1>2, <1>3, InitType DEF SerialInv

LEMMA SerialNext ==
  ASSUME Threads <= 1, SerialInv, [Next]_vars
  PROVE  SerialInv' /\ (Log!Next \/ logged' = logged)
<1>1. TypeOK' /\ HoldsTx'
  BY NextType DEF SerialInv
<1>2. CASE Next
  <2>1. Parts /\ logged \in Seq(Txs) /\ (DirNext \/ Crash)
    BY <1>2, TypeParts DEF SerialInv, Next, Parts
  <2>2. SubmitsOwn' /\ Slots'
    BY <2>1, SubmitsOwnStep, SlotsStep DEF SerialInv
  <2>3. LedgerFirst' /\ GetNeverCreates'
    BY <2>1, LedgerFirstStep DEF SerialInv
  <2> QED BY <1>1, <1>2, <2>1, <2>2, <2>3, SerialStep DEF SerialInv
<1>3. CASE UNCHANGED vars
  <2> USE <1>3 DEF vars, signVars, dirVars, SerialInv
  <2>1. SubmitsOwn' /\ Slots'
    BY DEF SubmitsOwn, Submitted, Slots, Settled
  <2>2. LedgerFirst' /\ GetNeverCreates'
    BY DEF LedgerFirst, GetNeverCreates
  <2>3. Serial'
    BY DEF Serial, OnePost, Active, LedgerIsLog, LedgerAt, Extends, Submitted,
       FilesFollow, FilesAt, Receipt
  <2> QED BY <1>1, <2>1, <2>2, <2>3
<1> QED BY <1>2, <1>3

\* One POST at a time, any number of readers and crashes: the ledger file
\* implements the append-only log, a transaction at a time at increasing
\* slots (module AppendOnlyLedger; cardano.py, submit, _load and _save).
THEOREM SerialLedgerIsALog ==
  ASSUME Threads <= 1
  PROVE  Spec => LedgerIsAppendOnly
<1>1. Init => SerialInv /\ Log!Init
  BY SerialInit DEF Init, InitDir, Log!Init
<1>2. SerialInv /\ [Next]_vars => SerialInv' /\ [Log!Next]_logged
  BY SerialNext
<1> QED BY <1>1, <1>2, PTL DEF Spec, LedgerIsAppendOnly, Log!Spec

-----------------------------------------------------------------------------
(* FinishedAnchorVerifies                                                   *)

\* Along an ascending ledger the tip is the last slot, so the transaction
\* just submitted has a confirmation.
LEMMA TipConfirms ==
  ASSUME NEW txs \in Seq(Txs), txs # <<>>, Ascending(txs)
  PROVE  Confirmations(txs, txs[Len(txs)].slot) >= 1
<1> DEFINE n == Len(txs)
           slots == {txs[i].slot : i \in DOMAIN txs}
           Highest(h) == \A i \in DOMAIN txs : txs[i].slot <= h
<1>1. n \in DOMAIN txs /\ DOMAIN txs = 1..n
  OBVIOUS
<1>2. \A i \in DOMAIN txs : txs[i].slot \in Nat
  <2> TAKE i \in DOMAIN txs
  <2>1. txs[i] \in Txs
    OBVIOUS
  <2> QED BY <2>1 DEF Txs
<1>3. txs[n].slot \in slots /\ Highest(txs[n].slot)
  <2> SUFFICES ASSUME NEW i \in DOMAIN txs PROVE txs[i].slot <= txs[n].slot
    BY <1>1
  <2>1. i = n \/ i < n
    BY <1>1
  <2> QED BY <1>1, <1>2, <2>1 DEF Ascending
<1> DEFINE tip == CHOOSE h \in slots : Highest(h)
<1>4. tip \in slots /\ Highest(tip)
  BY <1>3
<1>5. tip \in Nat /\ txs[n].slot <= tip
  BY <1>1, <1>2, <1>4
<1>6. Confirmations(txs, txs[n].slot) = tip - txs[n].slot + 1
  BY <1>5 DEF Confirmations
<1> QED BY <1>1, <1>2, <1>5, <1>6

\* The step that finishes a POST leaves a directory that verifies.
LEMMA FinishStep ==
  ASSUME SerialInv, Next, NEW q \in Requests, pc[q] # "done", pc'[q] = "done"
  PROVE  DirVerifies' /\ recordF'.val = record[q]
<1> USE DEF SerialInv
<1>1. Parts
  BY TypeParts DEF Parts
<1>2. WriteMetadata(q) /\ pc[q] = "saveMetadata"
  <2> USE <1>1 DEF Parts, PCsOK, Procs
  <2>1. ASSUME NEW p \in Procs,
               ProbeLedger(p) \/ CreateLedger(p) \/ WriteEmptyLedger(p)
        PROVE  FALSE
    BY <2>1 DEF ProbeLedger, CreateLedger, WriteEmptyLedger, Goto, AfterInit
  <2>2. ASSUME NEW g \in Getters, Get(g) PROVE FALSE
    <3>1. g # q
      BY ProcsAssumption
    <3> QED BY <2>2, <3>1 DEF Get, GetAnchor, ReadAnchorRecord, ReadReceipt,
            FetchTransaction, VerifyAgainstTip, ShowFile, NoAnswer, Goto
  <2>3. CASE Crash
    BY <2>3, ProcsAssumption DEF Crash
  <2>4. ASSUME NEW r \in Requests, Post(r) PROVE r = q /\ WriteMetadata(q)
    BY <2>4 DEF Post, PostAnchor, ReadManifestKey, ReadStorageUri, ReadKeyEnvelope,
       LoadForSubmit, Fail, OpenLedger, SaveLedger, WriteAnchorRecord, WriteReceipt,
       WriteMetadata, Goto
  <2>5. WriteMetadata(q)
    BY <2>1, <2>2, <2>3, <2>4 DEF Next, DirNext
  <2>6. pc'[q] # "saveMetadata"
    OBVIOUS
  <2> QED BY <2>5, <2>6 DEF WriteMetadata, Goto
<1>3. /\ ledgerF = Whole(loaded[q]) /\ recordF = Whole(record[q])
      /\ receiptF = Whole(Receipt(q)) /\ metadataF = Empty
  BY <1>2 DEF Serial, LedgerIsLog, LedgerAt, FilesFollow, FilesAt, Saved
<1>4. metadataF' = Whole(record[q])
  BY <1>2, <1>3 DEF WriteMetadata, Landing, Empty
<1>5. ledgerF' = ledgerF /\ recordF' = recordF /\ receiptF' = receiptF
  BY <1>2 DEF WriteMetadata
<1>6. /\ Parses(ledgerF') /\ ledgerF'.val = loaded[q]
      /\ Parses(recordF') /\ recordF'.val = record[q]
      /\ Parses(receiptF') /\ receiptF'.val = Receipt(q)
      /\ Parses(metadataF') /\ metadataF'.val = record[q]
  BY <1>3, <1>4, <1>5 DEF Whole, Parses
<1>7. /\ loaded[q] \in Seq(Txs) /\ loaded[q] # <<>> /\ Ascending(loaded[q])
      /\ Submitted(q).tx = q /\ Submitted(q).md = record[q]
  BY <1>1, <1>2 DEF SubmitsOwn, AfterLoad, Slots, Settled, Parts, LocalsOK, Procs
<1>8. Submitted(q) \in TxNamed(loaded[q], q)
  BY <1>7 DEF TxNamed, Submitted
<1>9. AnchorOk(record[q], Receipt(q), Submitted(q), loaded[q])
  BY <1>7, TipConfirms DEF AnchorOk, Receipt, Submitted, MinConfirmations
<1> QED BY <1>6, <1>8, <1>9 DEF DirVerifies, Receipt

\* One POST at a time: the moment a POST succeeds, its record is on disk and
\* the directory verifies, whatever earlier POSTs left behind when they
\* failed or died (publish_anchor, verify_anchor).
THEOREM SerialAnchorVerifies ==
  ASSUME Threads <= 1
  PROVE  Spec => FinishedAnchorVerifies
<1> DEFINE Finish == \A q \in Requests :
             pc[q] # "done" /\ pc'[q] = "done" =>
               DirVerifies' /\ recordF'.val = record[q]
<1>1. Init => SerialInv
  BY SerialInit
<1>2. SerialInv /\ [Next]_vars => SerialInv' /\ [Finish]_vars
  BY SerialNext, FinishStep
<1> QED BY <1>1, <1>2, PTL DEF Spec, FinishedAnchorVerifies
-----------------------------------------------------------------------------
(* The directory inside a larger system (module JobService): files of the   *)
(* sign-embed directory that others write, and where operator keys in the   *)
(* ledger come from.                                                        *)

\* Labels, files and local values, as the composition starts, steps in here
\* and steps elsewhere.
Typed == TypeOK /\ HoldsTx

LEMMA TypedInit ==
  InitDir /\ mkeyF \in FileOf(Runs) /\ uriF \in FileOf(Runs) /\ keyF \in FileOf(Runs)
    => Typed
<1> SUFFICES ASSUME InitDir, mkeyF \in FileOf(Runs), uriF \in FileOf(Runs),
                    keyF \in FileOf(Runs)
             PROVE  Typed
  OBVIOUS
<1>1. HoldsTx
  BY DEF InitDir, HoldsTx, AfterLoad, Procs
<1> QED BY <1>1, InitDirType DEF Typed

LEMMA TypedNext == Typed /\ Next => Typed'
  BY NextType DEF Typed

LEMMA TypedElsewhere ==
  Typed /\ UNCHANGED <<dirVars, pc, record, loaded, view, now, logged>>
        /\ mkeyF' \in FileOf(Runs) /\ uriF' \in FileOf(Runs) /\ keyF' \in FileOf(Runs)
        /\ crashes' \in 0..MaxCrashes => Typed'
  BY DEF Typed, TypeOK, HoldsTx, dirVars

\* A POST past its read of key.json.
PastKey == {"probe", "create", "createWrite", "load"} \cup AfterLoad

KidsIn(txs, K) == \A i \in DOMAIN txs : txs[i].md.kid \in K

\* Every operator key named by a record on its way to the ledger, by a copy
\* of it in memory and by the ledger itself is one of K.
KidsFrom(K) ==
  /\ \A q \in Requests : pc[q] \in PastKey => record[q].kid \in K
  /\ \A p \in Procs : KidsIn(loaded[p], K)
  /\ Parses(ledgerF) => KidsIn(ledgerF.val, K)
  /\ KidsIn(logged, K)

LEMMA KidsInit == InitDir => KidsFrom({})
<1> SUFFICES ASSUME InitDir PROVE KidsFrom({})
  OBVIOUS
<1>1. KidsIn(<<>>, {})
  BY DEF KidsIn
<1>2. \A q \in Requests : pc[q] \notin PastKey
  BY DEF InitDir, PastKey, AfterLoad, Procs
<1> QED BY <1>1, <1>2, NothingToParse DEF InitDir, KidsFrom

LEMMA KidsElsewhere ==
  \A K, L : KidsFrom(K) /\ K \subseteq L
              /\ UNCHANGED <<dirVars, pc, record, loaded, logged>> => KidsFrom(L)'
  BY DEF KidsFrom, KidsIn, dirVars


\* A step puts a key into a record only from key.json, into a copy only from
\* a record or the ledger, and into the ledger only from a copy.
LEMMA KidsStep ==
  \A K : Typed /\ KidsFrom(K) /\ (Parses(keyF) => keyF.val \in K) /\ Next => KidsFrom(K)'
<1> SUFFICES ASSUME NEW K, Typed, KidsFrom(K), Parses(keyF) => keyF.val \in K, Next
             PROVE  KidsFrom(K)'
  OBVIOUS
<1>0. Parts /\ HoldsTx /\ (DirNext \/ Crash) /\ Observe
  BY TypeParts DEF Typed, Parts, Next
<1> USE DEF Parts, PCsOK, LocalsOK
<1> HIDE DEF Next
<1>1. \A q \in Requests : pc'[q] \in PastKey => record'[q].kid \in K
  <2> SUFFICES ASSUME NEW r \in Requests, pc'[r] \in PastKey
               PROVE  record'[r].kid \in K
    OBVIOUS
  <2>k. ASSUME record'[r] = record[r], pc[r] \in PastKey PROVE record'[r].kid \in K
    BY <2>k DEF KidsFrom
  <2>1. ASSUME NEW p \in Procs,
               ProbeLedger(p) \/ CreateLedger(p) \/ WriteEmptyLedger(p)
        PROVE  record' = record /\ pc[r] \in PastKey
    BY <2>1, <1>0 DEF ProbeLedger, CreateLedger, WriteEmptyLedger, Goto, AfterInit,
       PastKey, AfterLoad, Procs
  <2>2. ASSUME NEW g \in Getters, Get(g)
        PROVE  record' = record /\ pc[r] \in PastKey
    <3>1. g # r
      BY ProcsAssumption
    <3>2. record' = record /\ \E l : Goto(g, l)
      BY <2>2 DEF Get, GetAnchor, ReadAnchorRecord, ReadReceipt,
         FetchTransaction, VerifyAgainstTip, ShowFile, NoAnswer
    <3> QED BY <3>1, <3>2, <1>0 DEF Goto, Procs
  <2>3. ASSUME NEW q \in Requests, Post(q), ~ReadKeyEnvelope(q)
        PROVE  record'[r] = record[r] /\ pc[r] \in PastKey
    BY <2>3, <1>0 DEF Post, PostAnchor, ReadManifestKey, ReadStorageUri, LoadForSubmit,
       Fail, OpenLedger, SaveLedger, WriteAnchorRecord, WriteReceipt,
       WriteMetadata, Goto, PastKey, AfterLoad, Procs
  <2>4. ASSUME NEW q \in Requests, ReadKeyEnvelope(q)
        PROVE  record'[r].kid \in K
    <3>1. CASE r # q
      <4>1. record'[r] = record[r] /\ pc[r] \in PastKey
        BY <2>4, <3>1, <1>0 DEF ReadKeyEnvelope, Fail, Goto, Procs
      <4> QED BY <4>1, <2>k
    <3>2. CASE r = q
      <4>1. Parses(keyF) /\ record' = [record EXCEPT ![q].kid = RunIn(keyF)]
        BY <2>4, <3>2, <1>0 DEF ReadKeyEnvelope, Fail, Goto, PastKey, AfterLoad, Procs
      <4>2. record[q] \in Records
        BY <1>0
      <4>3. record'[q].kid = RunIn(keyF)
        BY <4>1, <4>2, <1>0 DEF Records
      <4> QED BY <3>2, <4>1, <4>3 DEF RunIn
    <3> QED BY <3>1, <3>2
  <2>5. CASE Crash
    <3>1. pc[r] \in PastKey
      BY <2>5, <1>0, ProcsAssumption DEF Crash, PastKey, AfterLoad, Procs
    <3> QED BY <2>5, <3>1, <2>k DEF Crash
  <2> QED BY <1>0, <2>k, <2>1, <2>2, <2>3, <2>4, <2>5 DEF DirNext
<1>2. \A p \in Procs : KidsIn(loaded'[p], K)
  <2>1. CASE loaded' = loaded
    BY <2>1 DEF KidsFrom
  <2>2. CASE loaded' # loaded
    <3>1. PICK q \in Requests : LoadForSubmit(q) /\ ~Fail(q)
      BY <1>0, <2>2 DEF DirNext, Crash, Post, Get, PostAnchor, ReadManifestKey,
         ReadStorageUri, ReadKeyEnvelope, Fail, LoadForSubmit, OpenLedger, SaveLedger,
         WriteAnchorRecord, WriteReceipt, WriteMetadata, ProbeLedger, CreateLedger,
         WriteEmptyLedger, GetAnchor, ReadAnchorRecord, ReadReceipt,
         FetchTransaction, VerifyAgainstTip, ShowFile, NoAnswer
    <3>2. pc'[q] # "failed"
      BY <3>1, <1>0 DEF LoadForSubmit, Goto, Procs
    <3>3. PICK e \in Txs : /\ pc[q] = "load" /\ Parses(ledgerF) /\ e.md = record[q]
                           /\ loaded' = [loaded EXCEPT ![q] = Append(ledgerF.val, e)]
      BY <3>1, <3>2, <1>0, LoadAppends
    <3>4. e.md.kid \in K /\ KidsIn(ledgerF.val, K)
      BY <3>3 DEF KidsFrom, PastKey
    <3>5. ledgerF.val \in Seq(Txs)
      BY <3>3, <1>0, FileOfCases DEF FilesOK
    <3>6. KidsIn(Append(ledgerF.val, e), K)
      BY <3>4, <3>5 DEF KidsIn
    <3> QED BY <3>3, <3>6, <1>0 DEF KidsFrom
  <2> QED BY <2>1, <2>2
<1>3. Parses(ledgerF') => KidsIn(ledgerF'.val, K)
  <2> SUFFICES ASSUME Parses(ledgerF') PROVE KidsIn(ledgerF'.val, K)
    OBVIOUS
  <2>1. CASE ledgerF' = ledgerF
    BY <2>1 DEF KidsFrom
  <2>2. ASSUME NEW p \in Procs, CreateLedger(p) PROVE FALSE
    BY <2>2, NothingToParse DEF CreateLedger
  <2>3. ASSUME NEW q \in Requests, OpenLedger(q) PROVE FALSE
    BY <2>3, NothingToParse DEF OpenLedger
  <2>4. ASSUME NEW p \in Procs, WriteEmptyLedger(p) PROVE KidsIn(ledgerF'.val, K)
    <3>1. <<>> \in Seq(Txs)
      OBVIOUS
    <3>2. ledgerF'.val = <<>>
      BY <2>4, <3>1, LedgerLanding DEF WriteEmptyLedger
    <3> QED BY <3>2 DEF KidsIn
  <2>5. ASSUME NEW q \in Requests, SaveLedger(q) PROVE KidsIn(ledgerF'.val, K)
    <3>1. q \in Procs /\ loaded[q] \in Seq(Txs)
      BY <1>0 DEF Procs
    <3>2. ledgerF'.val = loaded[q]
      BY <2>5, <3>1, LedgerLanding DEF SaveLedger
    <3> QED BY <3>1, <3>2 DEF KidsFrom
  <2>6. \/ ledgerF' = ledgerF
        \/ \E p \in Procs : CreateLedger(p) \/ WriteEmptyLedger(p)
        \/ \E q \in Requests : OpenLedger(q) \/ SaveLedger(q)
    BY <1>0 DEF DirNext, Crash, Post, Get, PostAnchor, ReadManifestKey,
       ReadStorageUri, ReadKeyEnvelope, Fail, LoadForSubmit,
       WriteAnchorRecord, WriteReceipt, WriteMetadata, ProbeLedger,
       GetAnchor, ReadAnchorRecord, ReadReceipt,
       FetchTransaction, VerifyAgainstTip, ShowFile, NoAnswer, dirVars
  <2> QED BY <2>1, <2>2, <2>3, <2>4, <2>5, <2>6
<1>4. KidsIn(logged', K)
  BY <1>0, <1>3 DEF Observe, KidsFrom
<1> QED BY <1>1, <1>2, <1>3, <1>4 DEF KidsFrom
=============================================================================
