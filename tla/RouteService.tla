---------------------------- MODULE RouteService ----------------------------
(***************************************************************************)
(* The SHORT64-HV index and what hangs on it: manifests are indexed under  *)
(* route keys (HvRouting), the authenticated index commits to its          *)
(* candidate sets with a sparse Merkle map it builds lazily                *)
(* (SparseMerkle), the root is anchored (TrustBackends), and the resolvers *)
(* answer lookups, planned for privacy or not, against a pinned root or    *)
(* not.  oprow/authmap/short64_hv.py, oprow/hdc/index.py and the resolvers *)
(* of oprow/resolution that use them.                                      *)
(***************************************************************************)
EXTENDS SparseMerkle, HvRouting, TrustBackends, FiniteSets

CONSTANTS
  Items,           \* what may be indexed: a manifest with an artifact
  Stored,          \* manifests the backing resolver can fetch
  PolicyLists,     \* lists of privacy policies an indexer publishes for
  PathOf(_),       \* the path of a route key in the map (its hash)
  MaxAdds, MaxBuilds

\* The short id of a manifest is its hash, cut off.  An empty list of policies
\* would index nothing.
ASSUME ItemsAssumption ==
  /\ \A it \in Items : it.mk \in Nat /\ it.inline \in BOOLEAN
  /\ \A it, other \in Items : it.mk = other.mk => it.short = other.short
  /\ \A policies \in PolicyLists :
       /\ policies \in Seq(Range(policies)) /\ policies # <<>>
       /\ \A q \in Range(policies) : LegalPolicy(q)

VARIABLES
  buckets,         \* _by_route_key: route key -> references
  roots,           \* every root record built so far, as the entries under it
  cached,          \* the record in use, an index of roots, or 0 for none
  added            \* history: which item was indexed for which policies
vars == <<buckets, roots, cached, added, client, memory, chain, receipts, acked, attempts>>

Init ==
  /\ TrustInit
  /\ buckets = <<>> /\ roots = <<>> /\ cached = 0 /\ added = {}

(***************************************************************************)
(* Indexing.                                                               *)
(***************************************************************************)
\* Short64IndexReference of an item; the short id is the truncated hash.
Ref(it) == [mk |-> it.mk, short |-> it.short, ns |-> it.ns, inline |-> it.inline]

\* _reference_key: the FULL160 key, which every reference here has.
RefKey(ref) == ref.mk

Bucket(table, key) == IF key \in DOMAIN table THEN table[key] ELSE {}

\* The loop of add_reference: one reference per manifest and bucket, the first.
WithRef(bucket, ref) ==
  IF \E r \in bucket : RefKey(r) = RefKey(ref) THEN bucket ELSE bucket \cup {ref}

Inserted(table, ref, keys) ==
  [k \in DOMAIN table \cup Range(keys) |->
     IF k \in Range(keys) THEN WithRef(Bucket(table, k), ref) ELSE Bucket(table, k)]

\* Mutant of Cache: a reference that adds no bucket leaves the tree alone.
CacheUnlessNewKey(table) == IF DOMAIN table = DOMAIN buckets THEN cached ELSE 0

\* _mark_dirty, called whether the table changed or not.
Cache(table) == 0

KeysOf(it, p) == RouteKeys(Epoch, it.ns, p, it.short, it.hv)

\* The table after add_manifest of both indexes, once per precision.
Indexed(table, it, precisions) ==
  FoldLeft(LAMBDA t, p : Inserted(t, Ref(it), KeysOf(it, p)), table, precisions)

IndexAt(it, precisions, policies) ==
  /\ Cardinality(added) < MaxAdds
  /\ buckets' = Indexed(buckets, it, precisions)
  /\ cached' = Cache(buckets')
  /\ added' = added \cup {[item |-> it, policies |-> policies]}
  /\ UNCHANGED <<roots, client, memory, chain, receipts, acked, attempts>>

AddManifest == \E it \in Items : IndexAt(it, <<DefaultPrecision>>, <<>>)

\* add_manifest_for_privacy_policies
AddForPolicies ==
  \E it \in Items, policies \in PolicyLists : IndexAt(it, PrecisionsFor(policies), policies)

(***************************************************************************)
(* The commitment.                                                         *)
(***************************************************************************)
CandidateSet(key, refs) == [route_key |-> key, refs |-> refs]

\* The map's entries, by path: the canonical candidate set of every bucket.
Entries(table) ==
  LET keys == {k \in DOMAIN table : table[k] # {}}
      At(path) == CHOOSE k \in keys : PathOf(k) = path
  IN  [path \in {PathOf(k) : k \in keys} |-> CandidateSet(At(path), table[At(path)])]

\* _ensure_built, by root_record or a lookup.  A record is unlike any other by
\* its created_at, for which its place in roots stands.
EnsureBuilt ==
  /\ cached = 0 /\ Len(roots) < MaxBuilds
  /\ roots' = Append(roots, Entries(buckets))
  /\ cached' = Len(roots) + 1
  /\ UNCHANGED <<buckets, added, client, memory, chain, receipts, acked, attempts>>

RootRecord(i) ==
  [root |-> RootHash(roots[i]), keys |-> Cardinality(DOMAIN roots[i]),
   refs |-> SumFunction([k \in DOMAIN roots[i] |-> Cardinality(roots[i][k].refs)]),
   created_at |-> i]

\* publish_index_root(index.root_record())
Publish ==
  /\ cached # 0
  /\ LET anchor == AnchorOf(RootRecord(cached)) IN PublishFirst(anchor) \/ PublishAll(anchor)
  /\ UNCHANGED <<buckets, roots, cached, added>>

RestartPublisher == Restart /\ UNCHANGED <<buckets, roots, cached, added>>

Next == AddManifest \/ AddForPolicies \/ EnsureBuilt \/ Publish \/ RestartPublisher

Spec == Init /\ [][Next]_vars

(***************************************************************************)
(* Lookups.  Hits(bucket, short, ns) are the references of a bucket that   *)
(* pass the caller's filters: <<short>> or <<>>, and ns or NoNamespace.    *)
(***************************************************************************)
Passes(r, short, ns) ==
  /\ short = <<>> \/ <<r.short>> = short
  /\ ns = NoNamespace \/ r.ns = ns

\* The references of a sequence of buckets, one per manifest, the first seen,
\* with the number of buckets that hold the manifest.
Tally(seq) ==
  {LET where == {i \in DOMAIN seq : \E r \in seq[i] : r.mk = mk}
   IN  [ref |-> CHOOSE r \in seq[Min(where)] : r.mk = mk, hits |-> Cardinality(where)] :
     mk \in {r.mk : r \in UNION Range(seq)}}

\* AuthenticatedShort64HVLookupResult, of those that were cut off from a tally.
LookupResult(returned, tally) ==
  [refs |-> {t.ref : t \in returned}, complete |-> returned = tally, total |-> Cardinality(tally)]

\* Sorted by hits, then by key, and cut off at max; max = 0 stands for None.
Ranked(tally, max) ==
  LET Before(a, b) == a.hits > b.hits \/ (a.hits = b.hits /\ a.ref.mk < b.ref.mk)
      returned == {t \in tally : max = 0 \/ Cardinality({u \in tally : Before(u, t)}) < max}
  IN  LookupResult(returned, tally)

\* lookup_authenticated, on the entries of one root: filter, then tally.
LookupAuthenticated(entries, keys, short, ns, matches, max) ==
  LET Opened(key) == IF PathOf(key) \in DOMAIN entries THEN entries[PathOf(key)].refs ELSE {}
      seq == [i \in DOMAIN keys |-> {r \in Opened(keys[i]) : Passes(r, short, ns)}]
  IN  Ranked({t \in Tally(seq) : t.hits >= matches}, max)

\* Mutant of LookupTokens: one token is enough.
LookupAnyToken(table, keys, short, ns, matches, max) ==
  LET seq == [i \in DOMAIN keys |-> Bucket(table, keys[i])]
  IN  Ranked({t \in Tally(seq) : Passes(t.ref, short, ns)}, max)

\* MemoryShort64HVIndex.lookup_tokens: tally, then filter.
LookupTokens(table, keys, short, ns, matches, max) ==
  LET seq == [i \in DOMAIN keys |-> Bucket(table, keys[i])]
  IN  Ranked({t \in Tally(seq) : Passes(t.ref, short, ns) /\ t.hits >= matches}, max)

(***************************************************************************)
(* The resolvers.  A request has a short id, a namespace, and the artifact *)
(* as its hypervector; max is its max_candidates.                          *)
(***************************************************************************)
MaxLookup(max) == IF max > 0 THEN max + 1 ELSE 1

\* _candidates_from_reference: the inline document, or the backing resolver's.
Fetched(refs) == {r.mk : r \in {q \in refs : q.inline \/ q.mk \in Stored}}

Answer(lookup, max) ==
  LET candidates == Fetched(lookup.refs)
  IN  [status |-> CASE candidates = {} -> "not_found"
                    [] candidates # {} /\ (~lookup.complete \/ Cardinality(candidates) > max)
                         -> "partial"
                    [] OTHER -> "found",
       candidates |-> candidates]

RootMismatch == [status |-> "error", candidates |-> {}]

\* AuthenticatedShort64HVRouteResolver.resolve, given the route keys it asks
\* for; pinned is <<>> or <<expected_root>>.
ResolveAuthenticated(entries, keys, request, matches, max, pinned) ==
  IF pinned # <<>> /\ pinned # <<RootHash(entries)>> THEN RootMismatch
  ELSE Answer(LookupAuthenticated(entries, keys, <<request.short>>, request.ns, matches,
                                   MaxLookup(max)), max)

\* Short64HVRouteResolver.resolve
ResolvePlain(table, keys, request, matches, max) ==
  Answer(LookupTokens(table, keys, <<request.short>>, request.ns, matches, MaxLookup(max)), max)

\* Mutant of EstimateFrom: a manifest counts once per bucket.
EstimateHits(entries, keys) ==
  SumFunction([i \in DOMAIN keys |->
    LookupAuthenticated(entries, <<keys[i]>>, <<>>, NoNamespace, 1, 0).total])

\* estimate_tokens, with the index for its statistics.
EstimateFrom(entries, keys) ==
  LookupAuthenticated(entries, keys, <<>>, NoNamespace, 1, 0).total

PublicRouteKeys == DOMAIN buckets

\* The plan of a resolver with a policy; StaticCoverRouteSampler.from_index
\* draws on the public route keys.
PlanFor(policy, entries, request) ==
  LET precisions == PlanPrecisions(policy, <<>>)
      keys == PlanKeys(precisions, request.ns, request.short, request.hv)
      counts == [i \in DOMAIN keys |-> EstimateFrom(entries, keys[i])]
  IN  QueryPlan(policy, precisions, keys, counts, PublicRouteKeys)

(***************************************************************************)
(* Properties.                                                             *)
(***************************************************************************)
\* A root record or an opening is never served from a tree that an
\* add_reference since has made out of date.
ServedIsCurrent == cached # 0 => roots[cached] = Entries(buckets)

Requests == {[short |-> it.short, hv |-> it.hv, ns |-> it.ns] : it \in Items}
Limits == 0..2  \* of max_candidates

\* The ways to ask: without a planner, or by the plan of a policy.
NoPolicy == [profile |-> "none", matches |-> 1, covers |-> 0]
Ways == {NoPolicy} \cup UNION {Range(l) : l \in PolicyLists}
Asked(way, request) ==
  IF way = NoPolicy
  THEN [precision |-> DefaultPrecision, warned |-> FALSE,
        real |-> RouteKeys(Epoch, request.ns, DefaultPrecision, request.short, request.hv),
        queries |-> {RouteKeys(Epoch, request.ns, DefaultPrecision, request.short, request.hv)}]
  ELSE PlanFor(way, roots[cached], request)

\* The precisions that an added item was published at.
PublishedAt(a) ==
  IF a.policies = <<>> THEN {DefaultPrecision}
  ELSE UNION {Range(EffectivePrecisions(q)) : q \in Range(a.policies)}

\* What an index that was told of the items in added owes a request at a
\* precision: the manifests of the same short id and namespace that were
\* published at that precision with artifacts that agree on enough bands (a
\* band that a precision lists twice is two tokens).
Owed(request, p, matches) ==
  LET Like(a) == a.item.short = request.short /\ a.item.ns = request.ns
      Agrees(a, b) ==
        /\ BitPrefix(a.item.hv[b], p.band) = BitPrefix(request.hv[b], p.band)
        /\ \E w \in PublishedAt(a) : w.short = p.short /\ w.band = p.band /\ b \in Range(w.bands)
      Tokens(mk) == {i \in DOMAIN p.bands :
                       \E a \in added : Like(a) /\ a.item.mk = mk /\ Agrees(a, p.bands[i])}
  IN  {mk \in {a.item.mk : a \in added} : Cardinality(Tokens(mk)) >= matches}

\* A manifest that was added several times, with its document or without, is
\* known by the reference that came first: it is sure to be fetched if any of
\* those that a query may meet will do, and may be if one will.
Fetchable(a) == a.item.inline \/ a.item.mk \in Stored
Sure(way, request, owed) ==
  {mk \in owed : \A a \in added :
     a.item.mk = mk /\ (a.item.ns = request.ns \/ way.covers > 0) => Fetchable(a)}
Possible(request, owed) ==
  {mk \in owed : \E a \in added : a.item.mk = mk /\ a.item.ns = request.ns /\ Fetchable(a)}

\* Indexer and verifier derive the same route keys, whatever policy either
\* has: an answer carries only manifests that were indexed for what is asked
\* (cover queries may bring others), FOUND carries all of them, and NOT_FOUND
\* says there are none, unless the lookup was cut off (by what cover queries
\* brought in, or else because more were indexed than it may return).
AnswerIsExact ==
  cached # 0 => \A way \in Ways, request \in Requests :
    LET plan == Asked(way, request)
        owed == Owed(request, plan.precision, way.matches)
        sure == Sure(way, request, owed)
    IN  \A keys \in plan.queries, max \in Limits :
          LET lookup == LookupAuthenticated(roots[cached], keys, <<request.short>>, request.ns,
                                            way.matches, MaxLookup(max))
              answer == ResolveAuthenticated(roots[cached], keys, request, way.matches, max, <<>>)
          IN  /\ answer.status = "found" => sure \subseteq answer.candidates
              /\ answer.status = "not_found" =>
                   \/ sure = {}
                   \/ /\ ~lookup.complete
                      /\ way.covers = 0 => Cardinality(owed) > MaxLookup(max)
              /\ way.covers = 0 => answer.candidates \subseteq Possible(request, owed)

\* The authenticated index mirrors the plain one, as long as no cover query
\* finds a manifest under another namespace.
MirrorsPlainIndex ==
  cached # 0 => \A way \in {w \in Ways : w.covers = 0}, request \in Requests :
    \A keys \in Asked(way, request).queries, max \in Limits :
      ResolvePlain(buckets, keys, request, way.matches, max) =
        ResolveAuthenticated(roots[cached], keys, request, way.matches, max, <<>>)

\* A plan without warnings asks for buckets that hold between the policy's
\* anonymity set and its candidate limit of different manifests.
UnwarnedPlanHides ==
  cached # 0 => \A way \in Ways \ {NoPolicy}, request \in Requests :
    LET plan == Asked(way, request)
    IN  ~plan.warned =>
          Cardinality({r.mk : r \in UNION {Bucket(buckets, k) : k \in Range(plan.real)}})
            \in way.min..way.max

\* open_route_key, of the record in use or of an earlier one.
OpenRouteKey(i, key) == Open(roots[i], PathOf(key))

\* RouteCandidateSetOpening.verify
TypedOpeningVerifies(key, value, proof, root) ==
  OpeningVerifies([key |-> key, value |-> value, proof |-> proof, root |-> root])

\* No proof that the index ever served, under any of its roots and for any
\* key, makes another candidate set, or its absence, verify for a key under
\* the latest root.
OpeningsBind ==
  cached # 0 =>
    LET now == roots[cached]
        root == RootHash(now)
    IN  \A i \in DOMAIN roots :
          \A served \in {OpenRouteKey(i, j) : j \in PublicRouteKeys}, k \in PublicRouteKeys :
            \A value \in {served.value, Absent} :
              TypedOpeningVerifies(PathOf(k), value, served.proof, root) =>
                value = Entry(now, PathOf(k))

\* What a resolver answers under a root that a receipt vouches for is what the
\* index held when that root was built.
PinnedAnswerIsAnchored ==
  \A i \in DOMAIN roots : (\E r \in receipts : VerifyAnchor(AnchorOf(RootRecord(i)), r)) =>
    \A request \in Requests, max \in Limits :
      LET keys == RouteKeys(Epoch, request.ns, DefaultPrecision, request.short, request.hv)
          pinned == <<RootHash(roots[i])>>
          answer == ResolveAuthenticated(roots[cached], keys, request, 1, max, pinned)
      IN  cached # 0 /\ answer.status # "error" =>
            answer = ResolveAuthenticated(roots[i], keys, request, 1, max, <<>>)

\* A receipt verifies for no record but the one it was issued for: not for a
\* later record of the same root either.
ReceiptNamesOneRecord ==
  \A r \in receipts : \A i, j \in DOMAIN roots :
    VerifyAnchor(AnchorOf(RootRecord(i)), r) /\ r.object = AnchorOf(RootRecord(j)).object => i = j

\* Once publish_anchor_all has returned, however many attempts failed or timed
\* out before, the term was deployed on the chain and a receipt stays
\* verifiable, also after the publisher's own dictionaries are gone.
AckedStaysVerifiable ==
  \A a \in acked :
    /\ \E r \in receipts : VerifyAnchor(a, r)
    /\ client = "cli" => Contains(chain, Term(Payload(a)))
=============================================================================
