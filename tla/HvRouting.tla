----------------------------- MODULE HvRouting -----------------------------
(***************************************************************************)
(* From an artifact to the route keys it is looked up by: the routing of   *)
(* oprow/hdc/routing.py and the privacy policies of oprow/privacy.  An     *)
(* artifact's hypervector is given (the encoders that compute it are not   *)
(* modelled); a route key is the tuple that the code hashes.               *)
(***************************************************************************)
EXTENDS Integers, Sequences, SequencesExt

CONSTANTS
  NumBands, BitsPerBand, BandWidth,  \* the HDC profile
  ShortBits,                         \* bits of a short id (64 in the code)
  Ladder,                            \* default precisions of P1 and P2
  Epoch                              \* epoch_id of the index

\* HDCProfile, whose dimension is NumBands * BandWidth.
LegalProfile ==
  NumBands \in Nat \ {0} /\ BandWidth \in Nat /\ BitsPerBand \in 1..BandWidth

ASSUME ProfileAssumption == LegalProfile /\ ShortBits \in Nat
ASSUME LadderAssumption == Ladder \in Seq(Range(Ladder)) /\ Ladder # <<>>

NoNamespace == "no namespace"
Unset == -1

\* bit_prefix: the first n bits (of a short id, or of a band of a vector).
BitPrefix(bits, n) == [i \in 0..(n - 1) |-> bits[i]]

(***************************************************************************)
(* Precisions: prefix bits of the short id, bits per band, and which bands *)
(* (<<>> stands for None).                                                 *)
(***************************************************************************)
Precision(short, band, bands) == [short |-> short, band |-> band, bands |-> bands]

AllBands == [i \in 1..NumBands |-> i - 1]

Legal(p) ==
  /\ p.short \in 0..ShortBits
  /\ p.band = Unset \/ p.band \in 1..BandWidth
  /\ p.bands \in Seq(0..(NumBands - 1))

Normalized(p) ==
  Precision(p.short, IF p.band = Unset THEN BitsPerBand ELSE p.band,
            IF p.bands = <<>> THEN AllBands ELSE p.bands)

DefaultPrecision == Normalized(Precision(ShortBits, Unset, <<>>))

Clamped(short, band) ==
  Precision(short, IF band < 1 THEN 1 ELSE IF band > BandWidth THEN BandWidth ELSE band,
            AllBands)

\* derive_route_key, without the profile, which is fixed.
RouteKey(epoch, ns, p, short, band, hv) ==
  [epoch |-> epoch, ns |-> ns, short_bits |-> p.short, prefix |-> BitPrefix(short, p.short),
   band |-> band, band_bits |-> p.band, code |-> BitPrefix(hv[band], p.band)]

\* derive_route_tokens: one key per band of the precision, in its order.
RouteKeys(epoch, ns, p, short, hv) ==
  LET n == Normalized(p)
  IN  [i \in DOMAIN n.bands |-> RouteKey(epoch, ns, n, short, n.bands[i], hv)]

(***************************************************************************)
(* Privacy policies.                                                       *)
(***************************************************************************)
LegalPolicy(q) ==
  /\ q.profile \in {"P0", "P1", "P2"}
  /\ {q.min, q.max, q.matches} \subseteq Nat \ {0}
  /\ q.covers \in Nat /\ (q.covers = 0 \/ q.profile = "P2")
  /\ q.precisions \in Seq(Range(q.precisions))
  /\ \A p \in Range(q.precisions) : Legal(p)

\* unique_precisions: normalized, in order, without repetitions.
Unique(precisions) ==
  FoldLeft(LAMBDA kept, p : IF Contains(kept, Normalized(p)) THEN kept
                            ELSE Append(kept, Normalized(p)),
           <<>>, precisions)

EffectivePrecisions(q) ==
  IF q.precisions # <<>> THEN Unique(q.precisions)
  ELSE IF q.profile = "P0" THEN <<Clamped(ShortBits, BitsPerBand)>>
  ELSE [i \in DOMAIN Ladder |-> Clamped(Ladder[i][1], Ladder[i][2])]

\* Mutant of PrecisionsFor: the first policy of the list stands for all.
FirstPrecisionsFor(policies) == EffectivePrecisions(policies[1])

\* precisions_for_policies: what an indexer publishes for a list of policies.
PrecisionsFor(policies) ==
  Unique(FoldLeft(LAMBDA all, q : all \o EffectivePrecisions(q), <<>>, policies))

(***************************************************************************)
(* Short64HVPrivacyPlanner.  The counts are what the statistics say of the *)
(* number of candidates behind the keys; fallback is <<>> or <<p>>.        *)
(***************************************************************************)
PlanPrecisions(q, fallback) ==
  IF q.profile = "P0" /\ fallback # <<>> THEN <<Normalized(fallback[1])>>
  ELSE EffectivePrecisions(q)

\* _select: the first precision in range; else the largest of the buckets
\* that are too small; else the smallest of those that are too large.
Select(q, counts) ==
  LET Indexes == DOMAIN counts
      InRange == {i \in Indexes : counts[i] \in q.min..q.max}
      Below   == {i \in Indexes : counts[i] < q.min}
      First(S, Better(_, _)) ==
        CHOOSE i \in S : \A j \in S \ {i} :
          Better(counts[i], counts[j]) \/ (counts[i] = counts[j] /\ i < j)
      Larger(a, b) == a > b
      Smaller(a, b) == a < b
  IN  CASE q.profile = "P0" -> 1
        [] q.profile # "P0" /\ InRange # {} -> CHOOSE i \in InRange : \A j \in InRange : i <= j
        [] q.profile # "P0" /\ InRange = {} /\ Below # {} -> First(Below, Larger)
        [] OTHER -> First(Indexes, Smaller)

Warned(q, count) == count < q.min \/ count > q.max

\* The covers a static sampler may draw: as many as asked for, if there are so
\* many public keys beside the real ones, in any order.
CoverDraws(q, public, real) ==
  LET available == public \ Range(real)
      wanted == IF q.profile = "P2" THEN q.covers ELSE 0
      n == IF wanted > Cardinality(available) THEN Cardinality(available) ELSE wanted
  IN  IF wanted = 0 THEN {<<>>}
      ELSE {c \in [1..n -> available] : \A i, j \in 1..n : i # j => c[i] # c[j]}

\* All orders of the keys and the covers.
Shuffles(keys) ==
  {[i \in DOMAIN keys |-> keys[f[i]]] :
     f \in {g \in [DOMAIN keys -> DOMAIN keys] : Range(g) = DOMAIN keys}}

\* The keys for each precision in question.
PlanKeys(precisions, ns, short, hv) ==
  [i \in DOMAIN precisions |-> RouteKeys(Epoch, ns, precisions[i], short, hv)]

\* Short64HVQueryPlan; queries are the orders that all_queries may have.
QueryPlan(q, precisions, keys, counts, public) ==
  LET chosen == Select(q, counts)
  IN  [precision |-> precisions[chosen], real |-> keys[chosen],
       warned |-> Warned(q, counts[chosen]),
       queries |-> UNION {Shuffles(keys[chosen] \o c) :
                          c \in CoverDraws(q, public, keys[chosen])}]
=============================================================================
