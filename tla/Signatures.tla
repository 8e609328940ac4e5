----------------------------- MODULE Signatures -----------------------------
(***************************************************************************)
(* Signing a manifest core and checking its signature records              *)
(* (oprow/manifest/{keys, signatures, verification}.py).  A digital        *)
(* signature is a term that names the key that made it and the message it  *)
(* was made over; it verifies under that key, for that message.  A message *)
(* is named by what is encoded in it.                                      *)
(***************************************************************************)
EXTENDS Sequences, SequencesExt

CONSTANTS
  OfferedKeys,    \* the key records that were offered to the registry, in order
  RaisingKids     \* key ids the KeyResolver raises an exception for

ASSUME OfferedKeysAssumption == OfferedKeys \in Seq(ToSet(OfferedKeys))

\* What sign_core and verify_signature_record can compute with.
Algorithms == {"Ed25519", "ES256"}

KeyRecord(kid, alg, key) == [kid |-> kid, alg |-> alg, key |-> key]

\* MemoryKeyRegistry.add_public_key refuses another record for a key id it has.
AddPublicKey(registry, record) ==
  IF \E k \in registry : k.kid = record.kid THEN registry ELSE registry \cup {record}

KeyRegistry == FoldLeft(AddPublicKey, {}, OfferedKeys)

\* No more than one record.
ResolvePublicKey(kid) == {k \in KeyRegistry : k.kid = kid}

\* SignatureProtectedHeader, taken from the key and role or from a record.
ProtectedHeader(kid, alg, role, at) == [kid |-> kid, alg |-> alg, role |-> role, at |-> at]
HeaderOf(record) == ProtectedHeader(record.kid, record.alg, record.role, record.at)

SignaturePreimage(core, header) == [core |-> core, header |-> header]

SignatureRecord(kid, alg, role, at, signature) ==
  [kid |-> kid, alg |-> alg, role |-> role, at |-> at, signature |-> signature]

\* A manifest, addressed by all that is in it; the short id is its truncated hash.
SignedManifest(core, sigs, short) == [core |-> core, sigs |-> sigs, short |-> short]

\* OProWSigner.sign_core.  The record's metadata is under no signature.
SignCore(key, role, at, core) ==
  LET header == ProtectedHeader(key.kid, key.alg, role, at)
  IN  SignatureRecord(key.kid, key.alg, role, at,
                      [by |-> key.key, over |-> SignaturePreimage(core, header)])

\* The records of a manifest are sorted, so that their order is no matter.
CreateSignedManifest(core, signers, at, short) ==
  SignedManifest(core, {SignCore(s.key, s.role, at, core) : s \in signers}, short)

\* verify_signature_record
VerifySignature(core, record) ==
  \E k \in ResolvePublicKey(record.kid) :
    /\ record.alg = k.alg /\ k.alg \in Algorithms
    /\ record.signature = [by |-> k.key, over |-> SignaturePreimage(core, HeaderOf(record))]

\* verify_manifest_signatures looks up every key, so one that raises ends it.
SignaturesRaise(m) == \E record \in m.sigs : record.kid \in RaisingKids

ValidSignatures(m) == {record \in m.sigs : VerifySignature(m.core, record)}
=============================================================================
