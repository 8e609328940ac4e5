------------------------- MODULE ProvenanceVerifier -------------------------
(***************************************************************************)
(* One run of ProvenanceVerifier.verify (oprow/verification/orchestrator), *)
(* over Short64IndexResolver with a backing CompositeResolver, or over the *)
(* CompositeResolver itself, an EmbeddedManifestResolver first, for a      *)
(* FULL160 locator: index lookup, one reference at a time, one candidate   *)
(* at a time, and the classification of the reports.  The index bucket holds whatever was ever added under the  *)
(* short id, in any order; the sources answer as they like.                *)
(***************************************************************************)
EXTENDS Resolution, Signatures, FiniteSets

CONSTANTS
  Manifests,      \* records [core, sigs, short]
  Strays,         \* those that a source may answer with instead of the right one
  TrustedKids,    \* TrustPolicyStub.trusted_key_ids
  AcceptedRoles,  \* TrustPolicyStub.accepted_roles
  Indexed,        \* those that were ever added to the index
  Backends,       \* by mode, <<n1, n2, ...>>: the numbers of sources of the
                  \* resolvers inside the composite
  MetadataFields, \* number of metadata fields with a manifest in them
  Locators,       \* what may be recovered from the artifact
  Limits,         \* ResolutionLimits: records [candidates, fetches]
  MaxRows         \* bound on the rows of the index bucket

ASSUME LimitsAssumption  == Limits \subseteq [candidates : Nat, fetches : Nat]
ASSUME IndexedAssumption == Indexed \cup Strays \subseteq Manifests
ASSUME MaxRowsAssumption == MaxRows \in Nat
ASSUME SourcesAssumption ==
  Backends \in [full160 : Seq(Nat), short64 : Seq(Nat)] /\ MetadataFields \in Nat

\* What a decoded manifest and a recovered locator are.
ASSUME ManifestsAssumption ==
  \A m \in Manifests :
    /\ m.core.essence \in {"match", "mismatch", "unsupported", "error"}
    /\ \A sig \in m.sigs :
         sig = SignatureRecord(sig.kid, sig.alg, sig.role, sig.at, sig.signature)
ASSUME LocatorsAssumption ==
  \A loc \in Locators : /\ loc.mode \in {"full160", "short64", "registry"}
                        /\ loc.mode = "full160" => loc.man \in Manifests

VARIABLES
  locator, limits,   \* the request
  bucket,            \* the rows of the index under the locator's short id
  stage,
  refs,              \* rows returned by the lookup and not yet followed
  complete,          \* Short64LookupResult.complete
  failed,            \* whether following a reference raised (errors # [])
  cands,             \* manifests found, without duplicates
  resolution,        \* ResolutionResult.status
  reports,           \* candidate_reports: [man, status]
  verdict,           \* VerificationResult.status
  offered            \* history: a source would have answered with the named manifest

request == <<locator, limits, bucket>>
vars == <<request, stage, refs, complete, failed, cands, resolution, reports,
          verdict, offered>>

\* A row carries the document, or only the FULL160 key of one, or bytes that
\* do not decode.
Inline(m) == [kind |-> "inline", man |-> m]
Keyed(m)  == [kind |-> "keyed", man |-> m]
BadRow    == [kind |-> "bad"]
Rows == {Inline(m) : m \in Indexed} \cup {Keyed(m) : m \in Indexed} \cup {BadRow}

\* Statuses are the strings of VerificationStatus and ResolutionStatus.
Undecided == "none"

\* MemoryShort64Index.add_reference keeps the rows of a bucket distinct.
Init ==
  /\ locator \in Locators
  /\ limits \in Limits
  /\ bucket \in {s \in SeqOf(Rows, MaxRows) : \A i, j \in DOMAIN s : s[i] = s[j] => i = j}
  /\ locator.mode # "short64" => bucket = <<>>
  /\ stage = "resolve"
  /\ refs = <<>> /\ complete = TRUE /\ failed = FALSE /\ cands = <<>>
  /\ resolution = Undecided
  /\ reports = <<>>
  /\ verdict = Undecided
  /\ offered = FALSE

-----------------------------------------------------------------------------
(* Resolution                                                               *)

\* All answers the sources of the composite may give to a request for m.
AnswerLists(sources, m) ==
  {<<>>} \cup
  {[i \in DOMAIN sources |-> [j \in 1..sources[i] |-> f[<<i, j>>]]] :
     f \in [UNION {{i} \X (1..sources[i]) : i \in DOMAIN sources} ->
             Answers({m} \cup Strays)]}

\* What may come with the artifact, in the order the fields are read in.
Metadata(m) == [1..MetadataFields -> Answers({m} \cup Strays)]

Scans(answers, m) == [i \in DOMAIN answers |-> Scan(answers[i], Full(m), limits.candidates)]

\* The candidates for the key of m that a row of the index holds.
ResolveFull(answers, m, stopOnFirst) == Compose(Scans(answers, m), stopOnFirst)

Offers(answers, m) ==
  \E i \in DOMAIN answers : Document(m) \in ToSet(answers[i])

ResolveFullLocator ==
  /\ stage = "resolve" /\ locator.mode = "full160"
  /\ \E answers \in AnswerLists(Backends.full160, locator.man),
        fields \in Metadata(locator.man), stop \in BOOLEAN :
       /\ cands' = Compose(<<Embedded(fields, locator)>> \o Scans(answers, locator.man), stop)
       /\ offered' = Offers(<<fields>> \o answers, locator.man)
  /\ resolution' = IF cands' = <<>> THEN "not_found" ELSE "found"
  /\ stage' = "judge"
  /\ UNCHANGED <<request, refs, complete, failed, reports, verdict>>

\* No resolver here supports a locator with another derivation.
ResolveUnsupported ==
  /\ stage = "resolve" /\ locator.mode = "registry"
  /\ resolution' = "unsupported"
  /\ stage' = "judge"
  /\ UNCHANGED <<request, refs, complete, failed, cands, reports, verdict, offered>>

\* One row more than the candidate limit is asked for.
MaxLookup == IF limits.candidates > 0 THEN limits.candidates + 1 ELSE 1

LookupIndex ==
  /\ stage = "resolve" /\ locator.mode = "short64"
  /\ complete' = (Len(bucket) <= MaxLookup)
  /\ refs' = IF complete' THEN bucket ELSE SubSeq(bucket, 1, MaxLookup)
  /\ IF refs' = <<>>
     THEN resolution' = "not_found" /\ stage' = "judge"
     ELSE resolution' = resolution /\ stage' = "follow"
  /\ UNCHANGED <<request, failed, cands, reports, verdict, offered>>

\* The index cannot be read.
LookupFails ==
  /\ stage = "resolve" /\ locator.mode = "short64"
  /\ resolution' = "error"
  /\ stage' = "judge"
  /\ UNCHANGED <<request, refs, complete, failed, cands, reports, verdict, offered>>

\* Mutants of FollowReference: a row that raises ends the loop; a row that
\* raises is tried again.
FollowInline(row) ==
  CASE row.kind = "bad"   -> cands
    [] row.kind = "inline" -> AddNew(cands, row.man)
    [] row.kind = "keyed"  -> cands

FollowUntilBad ==
  /\ stage = "follow" /\ refs # <<>>
  /\ refs' = IF Head(refs).kind = "bad" THEN <<>> ELSE Tail(refs)
  /\ failed' = (failed \/ Head(refs).kind = "bad")
  /\ cands' = FollowInline(Head(refs))
  /\ UNCHANGED <<request, stage, complete, resolution, reports, verdict, offered>>

FollowRetrying ==
  /\ stage = "follow" /\ refs # <<>>
  /\ refs' = IF Head(refs).kind = "bad" THEN refs ELSE Tail(refs)
  /\ cands' = FollowInline(Head(refs))
  /\ UNCHANGED <<request, stage, complete, failed, resolution, reports, verdict, offered>>

\* A row that raises is noted; a key the sources do not answer adds nothing.
FollowReference ==
  /\ stage = "follow" /\ refs # <<>>
  /\ refs' = Tail(refs)
  /\ LET row == Head(refs) IN
     \/ /\ row.kind = "bad"
        /\ failed' = TRUE
        /\ cands' = cands
     \/ /\ row.kind = "inline"
        /\ failed' = failed
        /\ cands' = AddNew(cands, row.man)
     \/ /\ row.kind = "keyed"
        /\ failed' = failed
        /\ \E answers \in AnswerLists(Backends.short64, row.man), stop \in BOOLEAN :
             cands' = AddAllNew(cands, ResolveFull(answers, row.man, stop))
  /\ UNCHANGED <<request, stage, complete, resolution, reports, verdict, offered>>

\* Mutant of FinishLookup: a truncated lookup counts as a complete one.
FinishTruncated ==
  /\ stage = "follow" /\ refs = <<>>
  /\ cands' = Matching(cands, locator)
  /\ resolution' =
       IF cands' = <<>> THEN (IF failed THEN "error" ELSE "not_found")
       ELSE IF Len(cands') > limits.candidates THEN "partial"
       ELSE "found"
  /\ stage' = "judge"
  /\ UNCHANGED <<request, refs, complete, failed, reports, verdict, offered>>

FinishLookup ==
  /\ stage = "follow" /\ refs = <<>>
  /\ cands' = Matching(cands, locator)
  /\ resolution' =
       IF cands' = <<>> THEN (IF failed THEN "error" ELSE "not_found")
       ELSE IF ~complete \/ Len(cands') > limits.candidates THEN "partial"
       ELSE "found"
  /\ stage' = "judge"
  /\ UNCHANGED <<request, refs, complete, failed, reports, verdict, offered>>

-----------------------------------------------------------------------------
(* Verification                                                             *)

\* verify, up to the first candidate.
Judge ==
  /\ stage = "judge"
  /\ \/ /\ cands = <<>>
        /\ verdict' = IF resolution = "error" THEN "resolution_error"
                      ELSE "manifest_not_found"
        /\ stage' = "done"
     \/ /\ Len(cands) > limits.candidates
        /\ verdict' = "resolution_candidate_flood"
        /\ stage' = "done"
     \/ /\ cands # <<>> /\ Len(cands) <= limits.candidates
        /\ verdict' = verdict
        /\ stage' = "verify"
  /\ UNCHANGED <<request, refs, complete, failed, cands, resolution, reports, offered>>

\* SimpleTrustEvaluator: one valid signature has to have both.
Trusted(sig) ==
  /\ sig.role \in AcceptedRoles
  /\ sig.kid \in TrustedKids \/ "*" \in TrustedKids

TrustAccepts(m) == \E sig \in ValidSignatures(m) : Trusted(sig)

LocatorMismatch ==
  CASE locator.mode = "full160" -> "manifest_key_mismatch"
    [] locator.mode \in {"short64", "registry"} -> "manifest_short_id_mismatch"

\* verify_candidate and _check_essence.
CandidateStatus(m) ==
  IF ~Matches(m, locator) THEN LocatorMismatch
  ELSE IF SignaturesRaise(m) \/ ValidSignatures(m) = {}
  THEN "no_valid_signatures"
  ELSE CASE m.core.essence = "unsupported" -> "unsupported_essence_profile"
         [] m.core.essence = "error"       -> "essence_computation_failed"
         [] m.core.essence = "mismatch"    -> "content_mismatch"
         [] m.core.essence = "match"       ->
              IF TrustAccepts(m) THEN "verified" ELSE "signed_but_untrusted"

\* CandidateVerification
Report(m) == [man |-> m, status |-> CandidateStatus(m)]

VerifyNext ==
  /\ stage = "verify"
  /\ Len(reports) < Len(cands) /\ Len(reports) < limits.fetches
  /\ LET m == cands[Len(reports) + 1] IN
       reports' = Append(reports, Report(m))
  /\ UNCHANGED <<request, stage, refs, complete, failed, cands, resolution,
                 verdict, offered>>

\* Mutant of SameCore: only neighbours at the front are compared.
SameCoreOfTwo(reps) == Len(reps) > 1 => reps[1].man.core = reps[2].man.core

\* _same_manifest_core and _has_obvious_claim_conflict
SameCore(reps) == \A i \in DOMAIN reps : reps[i].man.core = reps[1].man.core

ClaimConflict(reps) ==
  LET only(claim, other) ==
        \E i \in DOMAIN reps : LET c == reps[i].man.core.claims IN
          claim \in c /\ other \notin c /\ "edit" \notin c
  IN only("capture", "generation") /\ only("generation", "capture")

FailurePriority ==
  <<"content_mismatch", "essence_computation_failed",
    "unsupported_essence_profile", "no_valid_signatures",
    "manifest_key_mismatch", "manifest_short_id_mismatch",
    "unsupported_pointer_mode">>

\* Mutant of BestFailure: the first report's failure.
FirstFailure(reps) == IF reps = <<>> THEN "manifest_not_found" ELSE reps[1].status

BestFailure(reps) ==
  LET statuses == {reps[i].status : i \in DOMAIN reps}
      present  == {i \in DOMAIN FailurePriority : FailurePriority[i] \in statuses}
  IN IF reps = <<>> THEN "manifest_not_found"
     ELSE IF present = {} THEN "no_valid_candidate"
     ELSE FailurePriority[CHOOSE i \in present : \A j \in present : i <= j]

\* Mutant of Classify: one trusted report settles it.
FirstTrustedWins(reps) ==
  IF \E i \in DOMAIN reps : reps[i].status = "verified" THEN "verified"
  ELSE BestFailure(reps)

\* trusted_valid, cryptographically_valid: all checks passed, or all but trust.
TrustedValid(r) == r.status = "verified"
CryptographicallyValid(r) == TrustedValid(r) \/ r.status = "signed_but_untrusted"

\* classify_reports
Classify(reps) ==
  LET trusted == KeepIf(reps, {r \in ToSet(reps) : TrustedValid(r)})
      signed  == KeepIf(reps, {r \in ToSet(reps) : CryptographicallyValid(r)})
  IN IF Len(trusted) = 1 THEN "verified"
     ELSE IF Len(trusted) > 1
          THEN IF SameCore(trusted) THEN "verified"
               ELSE IF ClaimConflict(trusted) THEN "conflicting_provenance"
               ELSE "ambiguous_multiple_valid"
     ELSE IF signed # <<>> THEN "signed_but_untrusted"
     ELSE BestFailure(reps)

Conclude ==
  /\ stage = "verify"
  /\ Len(reports) = Len(cands) \/ Len(reports) = limits.fetches
  /\ verdict' = IF Len(cands) > limits.fetches THEN "resolution_candidate_flood"
                ELSE Classify(reports)
  /\ stage' = "done"
  /\ UNCHANGED <<request, refs, complete, failed, cands, resolution, reports, offered>>

Next ==
  \/ ResolveFullLocator \/ ResolveUnsupported
  \/ LookupIndex \/ LookupFails \/ FollowReference \/ FinishLookup
  \/ Judge \/ VerifyNext \/ Conclude

Spec == Init /\ [][Next]_vars

\* verify runs to its end in one thread, and its loops are over finite lists.
FairSpec == Spec /\ WF_vars(Next)

-----------------------------------------------------------------------------
(* Properties                                                               *)

\* A record is genuine if it is what signing this core in this role gives, with
\* the key that was the first to be offered under its key id: no record moved
\* from another core, with a field changed, or by a later key of that id.
Genuine(sig, m) ==
  \E i \in DOMAIN OfferedKeys :
    /\ sig = SignCore(OfferedKeys[i], sig.role, sig.at, m.core)
    /\ OfferedKeys[i].alg \in {"Ed25519", "ES256"}
    /\ \A j \in 1..(i - 1) : OfferedKeys[j].kid # sig.kid

\* What the documents promise of an accepted manifest, independently of the
\* order of the checks: it matches the locator, its essence matches, its keys
\* resolve, and one genuine signature has a trusted key in an accepted role.
Acceptable(m) ==
  /\ Matches(m, locator)
  /\ \A sig \in m.sigs : sig.kid \notin RaisingKids
  /\ m.core.essence = "match"
  /\ \E sig \in m.sigs :
       Genuine(sig, m) /\ sig.role \in AcceptedRoles /\ {sig.kid, "*"} \cap TrustedKids # {}

\* A verified verdict rests on an acceptable candidate, no candidate of the
\* resolution was left out, and every acceptable one has the same core.
VerifiedIsUnrivalled ==
  verdict = "verified" =>
    /\ Len(cands) <= limits.candidates /\ Len(cands) <= limits.fetches
    /\ \E m \in ToSet(cands) :
         /\ Acceptable(m)
         /\ \A r \in ToSet(cands) : Acceptable(r) => r.core = m.core

\* The verdict is a function of the set of candidates: which rows came first
\* does not matter.
VerdictOfSet(S) ==
  LET good   == {m \in S : Acceptable(m)}
      signed == {m \in S : /\ Matches(m, locator) /\ m.core.essence = "match"
                           /\ \A sig \in m.sigs : sig.kid \notin RaisingKids
                           /\ \E sig \in m.sigs : Genuine(sig, m)}
      origin(c, other) == \E m \in good : c \in m.core.claims
                                         /\ m.core.claims \cap {other, "edit"} = {}
      failures == {CandidateStatus(m) : m \in S}
  IN IF Cardinality(S) > limits.candidates \/ Cardinality(S) > limits.fetches
     THEN {"resolution_candidate_flood"}
     ELSE IF S = {} THEN {"manifest_not_found", "resolution_error"}
     ELSE IF good # {}
     THEN IF \E c \in {m.core : m \in good} : \A m \in good : m.core = c
          THEN {"verified"}
          ELSE IF origin("capture", "generation") /\ origin("generation", "capture")
          THEN {"conflicting_provenance"} ELSE {"ambiguous_multiple_valid"}
     ELSE IF signed # {} THEN {"signed_but_untrusted"}
     ELSE {s \in failures : \A f \in failures :
             \E i, j \in DOMAIN FailurePriority :
               i <= j /\ FailurePriority[i] = s /\ FailurePriority[j] = f}

VerdictIgnoresOrder == verdict # Undecided => verdict \in VerdictOfSet(ToSet(cands))

\* Candidates that the index holds, and that no store is needed to read.
InBucket == {bucket[i].man : i \in {j \in DOMAIN bucket : bucket[j].kind = "inline"}}

\* An acceptable rival of a verified manifest, in the bucket but beyond the
\* rows that the lookup returned, does not go unnoticed: the resolution that
\* comes with the verdict is partial.
HiddenRivalIsFlagged ==
  verdict = "verified" /\ resolution = "found" =>
    \A m \in ToSet(cands), r \in InBucket :
      Acceptable(m) /\ Acceptable(r) => r.core = m.core

\* result.py: "Candidate ambiguity or flooding must produce an explicit
\* failure/ambiguous status, never a false `verified'".
AmbiguityNeverVerified ==
  verdict = "verified" =>
    \A m \in ToSet(cands), r \in InBucket :
      Acceptable(m) /\ Acceptable(r) => r.core = m.core

\* Junk cannot hide a good row: when the bucket is within the limits, rows
\* that fail, mismatch or are not acceptable never turn the verdict for an
\* acceptable inline row into a failure.
JunkCannotHide ==
  /\ verdict # Undecided /\ resolution # "error"
  /\ Len(bucket) <= limits.candidates /\ Len(bucket) <= limits.fetches
  /\ \E m \in InBucket : Acceptable(m)
  => verdict \in {"verified", "conflicting_provenance", "ambiguous_multiple_valid"}

\* One good source is enough: with no more sources per resolver than the
\* candidate limit, an acceptable manifest that some source or metadata field
\* offers for its FULL160 locator is verified, whatever the others answer.  (A
\* limit of no candidates or no fetches is a flood whatever is found.)
Sources == ToSet(Backends.full160)
OneGoodSourceSuffices ==
  /\ verdict # Undecided /\ locator.mode = "full160"
  /\ \A n \in Sources : n <= limits.candidates
  /\ limits.candidates > 0 /\ limits.fetches > 0
  /\ offered /\ Acceptable(locator.man)
  => verdict = "verified"

\* Every request gets a verdict.
VerdictReached == <>(verdict # Undecided)
=============================================================================
