----------------------------- MODULE Resolution -----------------------------
(***************************************************************************)
(* What the resolvers of oprow/resolution compute from the answers of      *)
(* their sources.  CASResolver, LocalPathResolver and HTTPGatewayResolver  *)
(* are the same loop over stores, paths and URLs; CompositeResolver tries  *)
(* resolvers in order.  A source is not trusted: it may hold nothing, fail *)
(* or answer with any manifest.                                            *)
(***************************************************************************)
EXTENDS Naturals, Sequences, SequencesExt

\* A document that decodes, no document, or one that cannot be read (an
\* exception, too many bytes, bytes that do not decode).
Document(m) == [kind |-> "document", man |-> m]
Miss  == [kind |-> "miss"]
Fault == [kind |-> "fault"]
Answers(Manifests) == {Document(m) : m \in Manifests} \cup {Miss, Fault}

\* A FULL160 locator names one SignedManifest; a SHORT64 locator names every
\* manifest whose hash is truncated to the same 64 bits.  Any other
\* derivation cannot be checked against a manifest.
Full(m)  == [mode |-> "full160", man |-> m]
Short(s) == [mode |-> "short64", short |-> s]
Registry == [mode |-> "registry"]

\* verify_locator_self_consistency
Matches(m, loc) ==
  \/ loc.mode = "full160" /\ m = loc.man
  \/ loc.mode = "short64" /\ m.short = loc.short

\* deduplicate_candidates: the first of equal manifests stays.
AddNew(seq, m) == IF Contains(seq, m) THEN seq ELSE Append(seq, m)
AddAllNew(seq, more) == FoldLeft(AddNew, seq, more)
Deduplicate(seq) == AddAllNew(<<>>, seq)

\* Those of a sequence that are in a set, in their order.
KeepIf(seq, S) == FoldLeft(LAMBDA kept, x : IF x \in S THEN Append(kept, x) ELSE kept, <<>>, seq)

\* filter_self_consistent_candidates
Matching(seq, loc) == KeepIf(seq, {m \in ToSet(seq) : Matches(m, loc)})

\* The loop over sources: it goes on past misses and faults and ends when cap
\* documents were decoded, whether or not they match the locator.
Decoded(answers, cap) ==
  LET docs == KeepIf(answers, {a \in ToSet(answers) : a.kind = "document"})
      n    == IF Len(docs) < cap THEN Len(docs) ELSE cap
  IN [i \in 1..n |-> docs[i].man]

Scan(answers, loc, cap) == Matching(Deduplicate(Decoded(answers, cap)), loc)

\* EmbeddedManifestResolver.resolve: every field of the metadata is read.
Embedded(fields, loc) == Matching(Deduplicate(Decoded(fields, Len(fields))), loc)

\* Mutant of Compose: the first resolver is the only one asked.
ComposeFirst(results, stopOnFirst) ==
  IF stopOnFirst /\ results # <<>> THEN results[1]
  ELSE Deduplicate(FlattenSeq(results))

\* CompositeResolver.resolve over the results of its resolvers.
Compose(results, stopOnFirst) ==
  LET found == {i \in DOMAIN results : results[i] # <<>>}
  IN IF stopOnFirst /\ found # {}
     THEN results[CHOOSE i \in found : \A j \in found : i <= j]
     ELSE Deduplicate(FlattenSeq(results))
=============================================================================
