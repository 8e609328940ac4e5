--------------------------- MODULE MCRouteService ---------------------------
(***************************************************************************)
(* An instance of RouteService for TLC: two bands of two bits, short ids   *)
(* of two bits, and five manifests that share them in different ways.      *)
(***************************************************************************)
EXTENDS RouteService

Bits(a, b) == [i \in 0..1 |-> IF i = 0 THEN a ELSE b]
Vector(x, y) == [i \in 0..1 |-> IF i = 0 THEN x ELSE y]
Item(mk, short, hv, ns, inline) ==
  [mk |-> mk, short |-> short, hv |-> hv, ns |-> ns, inline |-> inline]

Dawn == Vector(Bits(0, 1), Bits(1, 1))
Noon == Vector(Bits(0, 1), Bits(1, 0))

\* 1 and 2 have one short id and share a band; 1 is also indexed under a
\* namespace, without its document; 3 has another short id with the same first bit.
MCItems ==
  { Item(1, Bits(0, 1), Dawn, NoNamespace, TRUE), Item(1, Bits(0, 1), Dawn, "ns", FALSE),
    Item(2, Bits(0, 1), Noon, NoNamespace, FALSE), Item(3, Bits(0, 0), Dawn, NoNamespace, TRUE) }

Policy(profile, min, max, covers, matches, precisions) ==
  [profile |-> profile, min |-> min, max |-> max, covers |-> covers, matches |-> matches,
   precisions |-> precisions]

Fast   == Policy("P0", 1, 2, 0, 1, <<>>)
Bucket1 == Policy("P1", 2, 2, 0, 2, <<>>)
Covered == Policy("P2", 2, 3, 1, 1, <<Precision(1, 1, <<>>), Precision(1, Unset, <<1>>)>>)

MCPolicyLists == { <<Fast, Bucket1, Covered>> }
MCLadder == << <<0, 6>>, <<1, 1>> >>

\* Every route key of the instance, and its number in some order, for a hash.
AllPrecisions ==
  {DefaultPrecision} \cup UNION {UNION {Range(EffectivePrecisions(q)) : q \in Range(l)} :
                                   l \in MCPolicyLists}
AllKeys == UNION {Range(KeysOf(it, p)) : it \in MCItems, p \in AllPrecisions}
Numbered == FoldSet(LAMBDA k, seq : Append(seq, k), <<>>, AllKeys)
PathOfNumber(n) == [level \in 0..(Depth - 1) |-> (n \div (2^(Depth - 1 - level))) % 2]
PathTable ==
  [k \in AllKeys |-> PathOfNumber(CHOOSE i \in DOMAIN Numbered : Numbered[i] = k)]
MCPathOf(key) == PathTable[key]
ASSUME Cardinality(AllKeys) < 2^Depth
MCBackends == <<"memory", "asi">>
=============================================================================
