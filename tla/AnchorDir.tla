----------------------------- MODULE AnchorDir ------------------------------
(***************************************************************************)
(* The anchor directory of one job: POST /jobs/{id}/anchor and GET         *)
(* /jobs/{id}/anchor of openwater_mk/web/server.py, each run by a thread   *)
(* of the server's pool, over pipeline.anchor_sign_embed_output,           *)
(* pipeline.verify_anchor_dir and the file-backed mock ledger of           *)
(* openwater_mk/cardano.py.  `openwater anchor' and `openwater             *)
(* verify-anchor' are the same functions in a process of their own.        *)
(*                                                                         *)
(* Nothing locks the directory: each file access below is one step, and    *)
(* steps of different threads interleave.  The sign-embed files are an     *)
(* input here; module JobService supplies the code that writes them.       *)
(***************************************************************************)
EXTENDS Integers, Sequences, FiniteSets, TextFile

CONSTANTS
  Requests,    \* POST requests (each is served once)
  Getters,     \* clients of GET (each may ask again and again)
  Runs,        \* sign-and-embed runs whose outputs the directory may hold
  Threads,     \* how many POST handlers run at the same time
  MaxCrashes,  \* bound on crashes of the server process
  MaxTime      \* bound on the wall clock, in seconds

ASSUME ThreadsAssumption == Threads \in Nat
ASSUME BoundsAssumption  == MaxCrashes \in Nat /\ MaxTime \in Nat
ASSUME ProcsAssumption   == Requests \cap Getters = {}

VARIABLES
  mkeyF, uriF, keyF,      \* sign_embed/manifest_key.txt, storage_uri.txt, key.json
  anchorDir,              \* whether the anchor directory exists
  ledgerF,                \* anchor/ledger.json
  recordF, receiptF, metadataF,  \* anchor_record.json, receipt.json, metadata.json
  pc,                     \* where each handler is
  record,                 \* POST: the AnchorRecord built so far
  loaded,                 \* the transactions of the last _load
  view,                   \* GET: what was read, and the verdict
  now,                    \* the wall clock
  crashes,
  logged                  \* history: the last ledger text that parsed

signVars == <<mkeyF, uriF, keyF>>
dirVars  == <<anchorDir, ledgerF, recordF, receiptF, metadataF>>
vars == <<signVars, dirVars, pc, record, loaded, view, now, crashes, logged>>

Procs == Requests \cup Getters

NoRun == "none"

\* An AnchorRecord: the request stands for record_type, epoch and created_at,
\* the runs for subject_id/root_hash, ar_ref/ip_ref and operator_kid.
\* anchor_record_hash and build_metadata_payload commit to all of it, so the
\* record stands for its hash and for its metadata payload too.
Records == [req : Requests, subject : Runs \cup {NoRun},
            ref : Runs \cup {NoRun}, kid : Runs \cup {NoRun}]
Blank(q) == [req |-> q, subject |-> NoRun, ref |-> NoRun, kid |-> NoRun]

\* tx_hash is random: the request that submitted names the transaction.
Txs      == [tx : Requests, slot : Nat, md : Records]
Receipts == [tx : Requests, slot : Nat, ah : Records]

\* What a GET holds; {} where nothing was read yet.
NoView == [rec |-> {}, rcpt |-> {}, tx |-> {}, ok |-> FALSE]
Views  == [rec : SUBSET Records, rcpt : SUBSET Receipts,
           tx : SUBSET Txs, ok : BOOLEAN]

PostPCs == {"new", "readMkey", "readUri", "readKey", "probe", "create",
            "createWrite", "load", "open", "save", "openRecord",
            "saveRecord", "openReceipt", "saveReceipt", "openMetadata",
            "saveMetadata", "done", "failed"}
GetPCs  == {"idle", "readRecord", "readReceipt", "probe", "create",
            "createWrite", "fetch", "tip", "showRecord", "showReceipt",
            "showMetadata", "answered"}

\* What a text file of the sign-embed directory reads as.
RunIn(f) == IF Parses(f) THEN f.val ELSE NoRun

TypeOK ==
  /\ mkeyF \in FileOf(Runs) /\ uriF \in FileOf(Runs) /\ keyF \in FileOf(Runs)
  /\ anchorDir \in BOOLEAN
  /\ ledgerF \in FileOf(Seq(Txs))
  /\ recordF \in FileOf(Records)
  /\ receiptF \in FileOf(Receipts)
  /\ metadataF \in FileOf(Records)
  /\ pc \in [Procs -> PostPCs \cup GetPCs]
  /\ \A q \in Requests : pc[q] \in PostPCs
  /\ \A g \in Getters : pc[g] \in GetPCs
  /\ record \in [Requests -> Records]
  /\ loaded \in [Procs -> Seq(Txs)]
  /\ view \in [Getters -> Views]
  /\ now \in 0..MaxTime
  /\ crashes \in 0..MaxCrashes
  /\ logged \in Seq(Txs)

InitDir ==
  /\ anchorDir = FALSE
  /\ ledgerF = Absent /\ recordF = Absent
  /\ receiptF = Absent /\ metadataF = Absent
  /\ pc = [p \in Procs |-> IF p \in Requests THEN "new" ELSE "idle"]
  /\ record = [q \in Requests |-> Blank(q)]
  /\ loaded = [p \in Procs |-> <<>>]
  /\ view = [g \in Getters |-> NoView]
  /\ now = 0
  /\ crashes = 0
  /\ logged = <<>>

\* A finished sign-and-embed run, or one that was cut off before key.json.
Init ==
  /\ \E r \in Runs : /\ mkeyF = Whole(r) /\ uriF = Whole(r)
                     /\ keyF \in {Whole(r), Absent}
  /\ InitDir

Goto(p, l) == pc' = [pc EXCEPT ![p] = l]

Active == {q \in Requests : pc[q] \notin {"new", "done", "failed"}}

-----------------------------------------------------------------------------
(* MockCardanoBackend.__post_init__ and _load, run by POST and by GET       *)

\* The label after the backend is built.
AfterInit(p) == IF p \in Requests THEN "load" ELSE "fetch"

\* Mutant of ProbeLedger: the ledger is created whether or not it exists.
AlwaysCreate(p) ==
  /\ pc[p] = "probe"
  /\ Goto(p, "create")
  /\ UNCHANGED <<signVars, dirVars, record, loaded, view, now, crashes>>

ProbeLedger(p) ==
  /\ pc[p] = "probe"
  /\ Goto(p, IF Exists(ledgerF) THEN AfterInit(p) ELSE "create")
  /\ UNCHANGED <<signVars, dirVars, record, loaded, view, now, crashes>>

CreateLedger(p) ==
  /\ pc[p] = "create"
  /\ ledgerF' = Empty
  /\ Goto(p, "createWrite")
  /\ UNCHANGED <<signVars, anchorDir, recordF, receiptF, metadataF,
                 record, loaded, view, now, crashes>>

\* {"txs": []} is shorter than any ledger that holds a transaction.
WriteEmptyLedger(p) ==
  /\ pc[p] = "createWrite"
  /\ ledgerF' \in Landing(ledgerF, <<>>,
                    IF ledgerF = Whole(<<>>) THEN {FALSE} ELSE {TRUE})
  /\ Goto(p, AfterInit(p))
  /\ UNCHANGED <<signVars, anchorDir, recordF, receiptF, metadataF,
                 record, loaded, view, now, crashes>>

-----------------------------------------------------------------------------
(* POST /jobs/{id}/anchor                                                   *)

Fail(q) ==
  /\ Goto(q, "failed")
  /\ UNCHANGED <<signVars, dirVars, record, loaded, view, now, crashes>>

\* post_anchor and anchor_sign_embed_output up to its first read: the anchor
\* directory is made before anything is known to be there to anchor.
PostAnchor(q) ==
  /\ pc[q] = "new"
  /\ Cardinality(Active) < Threads
  /\ anchorDir' = TRUE
  /\ Goto(q, "readMkey")
  /\ UNCHANGED <<signVars, ledgerF, recordF, receiptF, metadataF,
                 record, loaded, view, now, crashes>>

\* The three reads of the sign-embed directory.  An absent file is a
\* FileNotFoundError (404).  A torn manifest_key.txt is an empty subject and a
\* torn storage_uri.txt no reference; only key.json has to parse.
ReadManifestKey(q) ==
  /\ pc[q] = "readMkey"
  /\ \/ /\ Exists(mkeyF)
        /\ record' = [record EXCEPT ![q].subject = RunIn(mkeyF)]
        /\ Goto(q, "readUri")
        /\ UNCHANGED <<signVars, dirVars, loaded, view, now, crashes>>
     \/ ~Exists(mkeyF) /\ Fail(q)

ReadStorageUri(q) ==
  /\ pc[q] = "readUri"
  /\ \/ /\ Exists(uriF)
        /\ record' = [record EXCEPT ![q].ref = RunIn(uriF)]
        /\ Goto(q, "readKey")
        /\ UNCHANGED <<signVars, dirVars, loaded, view, now, crashes>>
     \/ ~Exists(uriF) /\ Fail(q)

\* Mutant of ReadKeyEnvelope: without a key the record gets no operator_kid.
ReadKeyIfAny(q) ==
  /\ pc[q] = "readKey"
  /\ record' = [record EXCEPT ![q].kid = RunIn(keyF)]
  /\ Goto(q, "probe")
  /\ UNCHANGED <<signVars, dirVars, loaded, view, now, crashes>>

ReadKeyEnvelope(q) ==
  /\ pc[q] = "readKey"
  /\ \/ /\ Parses(keyF)
        /\ record' = [record EXCEPT ![q].kid = RunIn(keyF)]
        /\ Goto(q, "probe")
        /\ UNCHANGED <<signVars, dirVars, loaded, view, now, crashes>>
     \/ ~Parses(keyF) /\ Fail(q)

\* Mutants of NextSlot: the wall clock alone gives the slot; the slot is that
\* of the block before.
SlotFromClock(txs, t) == t
SlotOfParent(txs, t) == IF txs = <<>> THEN t - 1 ELSE txs[Len(txs)].slot

\* submit: _load, the slot, and the append to the copy in memory.
NextSlot(txs, t) == IF txs = <<>> THEN t ELSE txs[Len(txs)].slot + 1

\* Mutant of LoadForSubmit: an unreadable ledger is taken for an empty one.
LoadOrStartOver(q) ==
  LET txs == IF Parses(ledgerF) THEN ledgerF.val ELSE <<>> IN
  /\ pc[q] = "load"
  /\ loaded' = [loaded EXCEPT ![q] =
       Append(txs, [tx |-> q, slot |-> NextSlot(txs, now), md |-> record[q]])]
  /\ Goto(q, "open")
  /\ UNCHANGED <<signVars, dirVars, record, view, now, crashes>>

LoadForSubmit(q) ==
  /\ pc[q] = "load"
  /\ \/ /\ Parses(ledgerF)
        /\ \E t \in now..MaxTime :
             /\ now' = t
             /\ loaded' = [loaded EXCEPT ![q] =
                  Append(ledgerF.val, [tx |-> q, slot |-> NextSlot(ledgerF.val, t),
                                       md |-> record[q]])]
        /\ Goto(q, "open")
        /\ UNCHANGED <<signVars, dirVars, record, view, crashes>>
     \/ ~Parses(ledgerF) /\ Fail(q)

OpenLedger(q) ==
  /\ pc[q] = "open"
  /\ ledgerF' = Empty
  /\ Goto(q, "save")
  /\ UNCHANGED <<signVars, anchorDir, recordF, receiptF, metadataF,
                 record, loaded, view, now, crashes>>

\* _save.  More transactions make a longer text; as many, either.
LongerThan(txs) ==
  IF ~Parses(ledgerF) THEN BOOLEAN
  ELSE CASE Len(ledgerF.val) > Len(txs) -> {TRUE}
         [] Len(ledgerF.val) < Len(txs) -> {FALSE}
         [] OTHER -> BOOLEAN

SaveLedger(q) ==
  /\ pc[q] = "save"
  /\ ledgerF' \in Landing(ledgerF, loaded[q], LongerThan(loaded[q]))
  /\ Goto(q, "openRecord")
  /\ UNCHANGED <<signVars, anchorDir, recordF, receiptF, metadataF,
                 record, loaded, view, now, crashes>>

\* The rest of publish_anchor: three files, each truncated and then written.
Submitted(q) == loaded[q][Len(loaded[q])]
Receipt(q) == [tx |-> q, slot |-> Submitted(q).slot, ah |-> record[q]]

\* Mutant of WriteAnchorRecord: a record that is there already is kept.
KeepFirstRecord(q) ==
  /\ \/ /\ pc[q] = "openRecord"
        /\ IF Exists(recordF)
           THEN recordF' = recordF /\ Goto(q, "openReceipt")
           ELSE recordF' = Empty /\ Goto(q, "saveRecord")
     \/ /\ pc[q] = "saveRecord"
        /\ recordF' \in Landing(recordF, record[q], BOOLEAN)
        /\ Goto(q, "openReceipt")
  /\ UNCHANGED <<signVars, anchorDir, ledgerF, receiptF, metadataF,
                 record, loaded, view, now, crashes>>

WriteAnchorRecord(q) ==
  /\ \/ pc[q] = "openRecord" /\ recordF' = Empty /\ Goto(q, "saveRecord")
     \/ /\ pc[q] = "saveRecord"
        /\ recordF' \in Landing(recordF, record[q], BOOLEAN)
        /\ Goto(q, "openReceipt")
  /\ UNCHANGED <<signVars, anchorDir, ledgerF, receiptF, metadataF,
                 record, loaded, view, now, crashes>>

WriteReceipt(q) ==
  /\ \/ pc[q] = "openReceipt" /\ receiptF' = Empty /\ Goto(q, "saveReceipt")
     \/ /\ pc[q] = "saveReceipt"
        /\ receiptF' \in Landing(receiptF, Receipt(q), BOOLEAN)
        /\ Goto(q, "openMetadata")
  /\ UNCHANGED <<signVars, anchorDir, ledgerF, recordF, metadataF,
                 record, loaded, view, now, crashes>>

WriteMetadata(q) ==
  /\ \/ pc[q] = "openMetadata" /\ metadataF' = Empty /\ Goto(q, "saveMetadata")
     \/ /\ pc[q] = "saveMetadata"
        /\ metadataF' \in Landing(metadataF, record[q], BOOLEAN)
        /\ Goto(q, "done")
  /\ UNCHANGED <<signVars, anchorDir, ledgerF, recordF, receiptF,
                 record, loaded, view, now, crashes>>

Post(q) ==
  \/ PostAnchor(q) \/ ReadManifestKey(q) \/ ReadStorageUri(q)
  \/ ReadKeyEnvelope(q) \/ LoadForSubmit(q) \/ OpenLedger(q) \/ SaveLedger(q)
  \/ WriteAnchorRecord(q) \/ WriteReceipt(q) \/ WriteMetadata(q)

-----------------------------------------------------------------------------
(* GET /jobs/{id}/anchor                                                    *)

\* Any answer but 200: the client may ask again.
NoAnswer(g) ==
  /\ Goto(g, "idle")
  /\ view' = [view EXCEPT ![g] = NoView]
  /\ UNCHANGED <<signVars, dirVars, record, loaded, now, crashes>>

\* Mutant of GetAnchor: the backend is built before the files are read.
GetBuildsBackendFirst(g) ==
  /\ pc[g] \in {"idle", "answered"}
  /\ anchorDir
  /\ Goto(g, "probe")
  /\ view' = [view EXCEPT ![g] = NoView]
  /\ UNCHANGED <<signVars, dirVars, record, loaded, now, crashes>>

GetAnchor(g) ==
  /\ pc[g] \in {"idle", "answered"}
  /\ anchorDir                          \* otherwise 404
  /\ Goto(g, "readRecord")
  /\ view' = [view EXCEPT ![g] = NoView]
  /\ UNCHANGED <<signVars, dirVars, record, loaded, now, crashes>>

ReadAnchorRecord(g) ==
  /\ pc[g] = "readRecord"
  /\ \/ /\ Parses(recordF)
        /\ view' = [view EXCEPT ![g].rec = {recordF.val}]
        /\ Goto(g, "readReceipt")
        /\ UNCHANGED <<signVars, dirVars, record, loaded, now, crashes>>
     \/ ~Parses(recordF) /\ NoAnswer(g)

ReadReceipt(g) ==
  /\ pc[g] = "readReceipt"
  /\ \/ /\ Parses(receiptF)
        /\ view' = [view EXCEPT ![g].rcpt = {receiptF.val}]
        /\ Goto(g, "probe")
        /\ UNCHANGED <<signVars, dirVars, record, loaded, now, crashes>>
     \/ ~Parses(receiptF) /\ NoAnswer(g)

\* verify_anchor, up to fetch_transaction: the first transaction with the
\* receipt's hash.  Without one the verdict is already negative.
TxNamed(txs, id) == {txs[i] : i \in {j \in DOMAIN txs : txs[j].tx = id}}

FetchTransaction(g) ==
  /\ pc[g] = "fetch"
  /\ \/ /\ Parses(ledgerF)
        /\ \E rcpt \in view[g].rcpt :
             LET found == TxNamed(ledgerF.val, rcpt.tx) IN
             /\ view' = [view EXCEPT ![g].tx = found]
             /\ Goto(g, IF found = {} THEN "showRecord" ELSE "tip")
        /\ UNCHANGED <<signVars, dirVars, record, loaded, now, crashes>>
     \/ ~Parses(ledgerF) /\ NoAnswer(g)

\* Mutant of Confirmations: the block of the transaction does not count.
BlocksOnTop(txs, height) ==
  Cardinality({i \in DOMAIN txs : txs[i].slot > height})

\* The verdict, once the transaction is found: record hash against receipt,
\* confirmations from a second _load, and the metadata against the record.
Confirmations(txs, height) ==
  LET tip == IF txs = <<>> THEN 0
             ELSE CHOOSE h \in {txs[i].slot : i \in DOMAIN txs} :
                    \A i \in DOMAIN txs : txs[i].slot <= h
  IN IF tip >= height THEN tip - height + 1 ELSE 0

MinConfirmations == 1

AnchorOk(rec, rcpt, tx, txs) ==
  /\ rec = rcpt.ah
  /\ Confirmations(txs, tx.slot) >= MinConfirmations
  /\ tx.md = rec

VerifyAgainstTip(g) ==
  /\ pc[g] = "tip"
  /\ \/ /\ Parses(ledgerF)
        /\ view' = [view EXCEPT ![g].ok =
             \E rec \in view[g].rec, rcpt \in view[g].rcpt, tx \in view[g].tx :
               AnchorOk(rec, rcpt, tx, ledgerF.val)]
        /\ Goto(g, "showRecord")
        /\ UNCHANGED <<signVars, dirVars, record, loaded, now, crashes>>
     \/ ~Parses(ledgerF) /\ NoAnswer(g)

\* The response reads the three files once more.
ShowFile(g, at, f, next) ==
  /\ pc[g] = at
  /\ \/ /\ Parses(f)
        /\ Goto(g, next)
        /\ UNCHANGED <<signVars, dirVars, record, loaded, view, now, crashes>>
     \/ ~Parses(f) /\ NoAnswer(g)

Get(g) ==
  \/ GetAnchor(g) \/ ReadAnchorRecord(g) \/ ReadReceipt(g)
  \/ FetchTransaction(g) \/ VerifyAgainstTip(g)
  \/ ShowFile(g, "showRecord", recordF, "showReceipt")
  \/ ShowFile(g, "showReceipt", receiptF, "showMetadata")
  \/ ShowFile(g, "showMetadata", metadataF, "answered")

-----------------------------------------------------------------------------
(* The server process dies: every handler is gone, every file stays.        *)

Crash ==
  /\ crashes < MaxCrashes
  /\ crashes' = crashes + 1
  /\ pc' = [p \in Procs |->
             IF p \in Getters THEN "idle"
             ELSE IF pc[p] \in {"new", "done"} THEN pc[p] ELSE "failed"]
  /\ view' = [g \in Getters |-> NoView]
  /\ UNCHANGED <<signVars, dirVars, record, loaded, now>>

DirNext ==
  \/ \E q \in Requests : Post(q)
  \/ \E g \in Getters : Get(g)
  \/ \E p \in Procs : ProbeLedger(p) \/ CreateLedger(p) \/ WriteEmptyLedger(p)

Observe == logged' = IF Parses(ledgerF') THEN ledgerF'.val ELSE logged

Next == (DirNext \/ Crash) /\ Observe

Spec == Init /\ [][Next]_vars

\* A handler that runs keeps running (it waits for nobody), and a client
\* keeps asking.
Fairness ==
  /\ \A q \in Requests : WF_vars(Post(q) /\ Observe)
  /\ \A g \in Getters : WF_vars(Get(g) /\ Observe)
  /\ \A p \in Procs :
       WF_vars((ProbeLedger(p) \/ CreateLedger(p) \/ WriteEmptyLedger(p)) /\ Observe)

FairSpec == Spec /\ Fairness

-----------------------------------------------------------------------------
(* Properties                                                               *)

\* Slots increase along every ledger text, and no request is in it twice:
\* whatever interleaving of submit produced the text (cardano.py, submit).
Ascending(txs) ==
  \A i, j \in DOMAIN txs :
    i < j => txs[i].slot < txs[j].slot /\ txs[i].tx # txs[j].tx

SlotsMonotonic == Parses(ledgerF) => Ascending(ledgerF.val)

\* MockCardanoBackend's constructor creates a missing ledger, also on behalf
\* of a reader.  No GET ever does: it builds the backend only after it has
\* read a record and a receipt, and a ledger is there before either.
GetNeverCreates == \A g \in Getters : pc[g] \notin {"create", "createWrite"}

\* The directory as a verifier that meets no writer sees it.
DirVerifies ==
  /\ Parses(recordF) /\ Parses(receiptF) /\ Parses(metadataF) /\ Parses(ledgerF)
  /\ metadataF.val = recordF.val
  /\ \E tx \in TxNamed(ledgerF.val, receiptF.val.tx) :
       AnchorOk(recordF.val, receiptF.val, tx, ledgerF.val)

\* With one POST at a time, the moment a POST succeeds its directory
\* verifies, also when an earlier POST died half way through its files.
FinishedAnchorVerifies ==
  [][\A q \in Requests :
       pc[q] # "done" /\ pc'[q] = "done" =>
         DirVerifies' /\ recordF'.val = record[q]]_vars

\* With one POST at a time the ledger file is the append-only log that
\* anchor_sign_embed_output documents, crashes included: a crash can make
\* the file unreadable, but it never brings back a ledger that lost a
\* transaction.
Log == INSTANCE AppendOnlyLedger WITH log <- logged
LedgerIsAppendOnly == Log!Spec

\* With POSTs at the same time the ledger may lose transactions or be garbled,
\* but as long as nothing crashes, a readable ledger is not left without any
\* transaction of the POSTs that succeeded.
LossIsPartial ==
  /\ Active = {}
  /\ \E q \in Requests : pc[q] = "done"
  /\ Parses(ledgerF)
  => \E q \in Requests : pc[q] = "done" /\ TxNamed(ledgerF.val, q) # {}

\* Once one POST succeeded, a client that keeps asking gets a positive
\* verdict, unless the server crashes (one POST at a time).
AnchorBecomesVisible ==
  (\E q \in Requests : pc[q] = "done")
    ~> (crashes > 0 \/ \E g \in Getters : pc[g] = "answered" /\ view[g].ok)
=============================================================================
