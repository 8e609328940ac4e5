---------------------------- MODULE TrustBackends ----------------------------
(***************************************************************************)
(* The trust backends that anchor records and answer for receipts: the     *)
(* memory backend (oprow/trust/base.py), the ASI:chain backend over a mock *)
(* client or over the command-line client (oprow/asi_chain), and the       *)
(* publisher that fans out to both.  A hash is what was hashed.            *)
(***************************************************************************)
EXTENDS Integers, Sequences, SequencesExt

CONSTANTS
  Backends,     \* the backends of the MultiTrustBackend, in its order
  Clients,      \* clients the ASI backend may run over: "mock", "cli"
  MaxPublish    \* bound: publications attempted

ASSUME BackendsAssumption ==
  Range(Backends) \subseteq {"memory", "asi"} /\ Backends # <<>>

VARIABLES
  client,       \* the client of the ASI backend
  memory,       \* _anchors_by_record_hash of the memory backend
  chain,        \* terms deployed, oldest first (deployed_terms, or the DevNet)
  receipts,     \* receipts handed to the publisher, who keeps them
  acked,        \* anchors for which publish_anchor_all returned
  attempts      \* publications attempted
trustVars == <<client, memory, chain, receipts, acked, attempts>>

\* Mutant of AnchorOf: the anchor names the root and not the record.
AnchorOfRoot(rootRecord) ==
  [type |-> "index_root", object |-> <<"H", rootRecord.root>>,
   body |-> [root |-> rootRecord.root, keys |-> rootRecord.keys, refs |-> rootRecord.refs]]

\* index_root_to_anchor_record
AnchorOf(rootRecord) ==
  [type |-> "index_root", object |-> <<"H", rootRecord>>,
   body |-> [root |-> rootRecord.root, keys |-> rootRecord.keys, refs |-> rootRecord.refs]]

RecordHash(anchor) == <<"H", anchor>>

\* ASIAnchorPayload and the term that carries it.
Payload(anchor) == [record |-> RecordHash(anchor), object |-> anchor.object]
Term(payload) == <<"term", payload>>

Network(backend) ==
  CASE backend = "memory" -> "local-memory"
    [] backend = "asi" /\ client = "mock" -> "mock-devnet"
    [] OTHER -> "devnet"

\* What a transaction id starts with: the mock has a transaction hash, the
\* command-line client a deploy id only.
TransactionId(backend) ==
  CASE backend = "memory" -> "memtx"
    [] backend = "asi" /\ client = "mock" -> "mock-tx"
    [] OTHER -> "cli-deploy"

\* The term goes along only with the ASI backend's receipts.
ReceiptOf(backend, anchor) ==
  [backend |-> backend, network |-> Network(backend), type |-> anchor.type,
   object |-> anchor.object, record |-> RecordHash(anchor),
   tx |-> TransactionId(backend),
   term |-> IF backend = "asi" THEN <<Term(Payload(anchor))>> ELSE <<>>]

Publishable == attempts < MaxPublish

TrustInit ==
  /\ client \in Clients
  /\ memory = {} /\ chain = <<>> /\ receipts = {} /\ acked = {} /\ attempts = 0

\* Deploying a term a second time overwrites the mock's entry, and is one more
\* deploy on a chain.
Deployed(term) ==
  IF client = "mock" /\ Contains(chain, term) THEN chain ELSE Append(chain, term)

(***************************************************************************)
(* One publish_anchor of one backend, as the change it makes.  The command *)
(* line may fail (exit code, or timeout) before or after the deploy.      *)
(***************************************************************************)
Outcomes(backend) ==
  IF backend = "asi" /\ client = "cli" THEN {"ok", "failed", "late"} ELSE {"ok"}

\* Mutant of Raises: the exit code of the command line is not looked at.
RaisesOnTimeout(outcome) == outcome = "late"

Raises(outcome) == outcome \in {"failed", "late"}

PublishOn(S, anchor, outcome) ==
  /\ memory' = IF "memory" \in S THEN memory \cup {anchor} ELSE memory
  /\ chain' = IF "asi" \in S /\ outcome # "failed" THEN Deployed(Term(Payload(anchor))) ELSE chain
  /\ attempts' = attempts + 1
  /\ UNCHANGED client

\* MultiTrustBackend.publish_anchor: the first backend only.
PublishFirst(anchor) ==
  /\ Publishable
  /\ \E outcome \in Outcomes(Backends[1]) :
       /\ PublishOn({Backends[1]}, anchor, outcome)
       /\ receipts' = IF Raises(outcome) THEN receipts
                      ELSE receipts \cup {ReceiptOf(Backends[1], anchor)}
       /\ UNCHANGED acked

\* MultiTrustBackend.publish_anchor_all: one backend after the other, up to the
\* one that raises, and no receipt at all if one does.
Reached(outcome) ==
  {b \in Range(Backends) :
     ~Raises(outcome) \/ \E i \in DOMAIN Backends :
                           b = Backends[i] /\ \A j \in 1..(i - 1) : Backends[j] # "asi"}

PublishAll(anchor) ==
  /\ Publishable
  /\ \E outcome \in IF "asi" \in Range(Backends) THEN Outcomes("asi") ELSE {"ok"} :
       /\ PublishOn(Reached(outcome), anchor, outcome)
       /\ IF Raises(outcome) THEN UNCHANGED <<receipts, acked>>
          ELSE /\ receipts' = receipts \cup {ReceiptOf(b, anchor) : b \in Range(Backends)}
               /\ acked' = acked \cup {anchor}

\* The publisher's process ends: its dictionaries are gone, the mock chain's
\* among them.
Restart ==
  /\ memory' = {}
  /\ chain' = IF client = "mock" THEN <<>> ELSE chain
  /\ UNCHANGED <<client, receipts, acked, attempts>>

(***************************************************************************)
(* Verification of a receipt.                                              *)
(***************************************************************************)
\* The ASIChainReceipt that verify_anchor makes again for the client: it has a
\* deploy id only if the transaction id is the mock's.
AsiReceipt(receipt) ==
  [deploy |-> IF receipt.tx = "mock-deploy" THEN <<receipt.tx>> ELSE <<>>,
   record |-> receipt.record, object |-> receipt.object]

\* verify_deploy_contains_anchor of the mock, which looks the deploy up.
DeployedTerm(asiReceipt, payload) == asiReceipt.deploy # <<>> /\ Contains(chain, Term(payload))

\* That of the command-line client, which has no chain lookup.
HashesAgree(asiReceipt, payload) ==
  asiReceipt.record = payload.record /\ asiReceipt.object = payload.object

DeployConfirmed(receipt, payload) ==
  IF client = "mock" THEN DeployedTerm(AsiReceipt(receipt), payload)
  ELSE HashesAgree(AsiReceipt(receipt), payload)

\* The memory backend has the very record.
Remembered(anchor) == anchor \in memory

TermConfirms(receipt, payload) == receipt.term = <<Term(payload)>>

VerifyOn(backend, anchor, receipt) ==
  /\ receipt.backend = backend
  /\ receipt.network = Network(backend)
  /\ receipt.record = RecordHash(anchor)
  /\ receipt.object = anchor.object
  /\ IF backend = "memory" THEN Remembered(anchor)
     ELSE /\ receipt.type = anchor.type
          /\ \/ DeployConfirmed(receipt, Payload(anchor))
             \/ TermConfirms(receipt, Payload(anchor))

\* MultiTrustBackend.verify_anchor: the first backend of the receipt's id and
\* network decides.
VerifyAnchor(anchor, receipt) ==
  \E b \in Range(Backends) :
    /\ receipt.backend = b /\ receipt.network = Network(b)
    /\ VerifyOn(b, anchor, receipt)
=============================================================================
