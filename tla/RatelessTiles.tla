--------------------------- MODULE RatelessTiles ---------------------------
(***************************************************************************)
(* The rateless watermark: each tile of an image carries one equation      *)
(* about the manifest key, as a record that is repeated bit by bit         *)
(* (oprow/rateless/{records, equations, image_alpha}.py).  The mask of an  *)
(* equation is a function of its id, public and the same for all.          *)
(***************************************************************************)
EXTENDS WatermarkFrame, Gf2Solver

CONSTANTS
  RecordPreamble,                    \* "OR"
  RecordVersion,                     \* bits of RATELESS_RECORD_VERSION
  IdBits, ReservedBits,              \* 16, 3
  MaxEquationId, EquationWeight,     \* of the RatelessEquationProfile
  MaskOf(_),                         \* sparse_mask_for_equation
  TileBits                           \* tile_size squared

\* RatelessEquationProfile; its ids have to fit the record's field.
LegalEquationProfile ==
  Width = FullBits /\ EquationWeight \in 1..Width /\ MaxEquationId \in 1..(PowerOfTwo[IdBits] - 1)

ASSUME RatelessAssumption ==
  /\ IdBits \in Nat /\ LegalEquationProfile
  /\ {RecordPreamble, RecordVersion} \subseteq Seq({0, 1})
  /\ {ReservedBits, MaxEquationId} \subseteq Nat
  /\ \A id \in 0..MaxEquationId :
       MaskOf(id) \subseteq Unknowns /\ Cardinality(MaskOf(id)) = EquationWeight

\* manifest_key_to_int and back; bit 0 is the last bit of the pointer.
KeyOf(pointer) == {Width - i : i \in {j \in DOMAIN pointer : pointer[j] = 1}}
PointerOf(key) == [i \in 1..Width |-> IF Width - i \in key THEN 1 ELSE 0]

\* equation_rhs_for_key
RhsFor(id, key) == Parity(MaskOf(id) \cap key)

(***************************************************************************)
(* Records.                                                                *)
(***************************************************************************)
Protected(id, rhs) ==
  RecordVersion \o IntToBits(id, IdBits) \o <<rhs>> \o [i \in 1..ReservedBits |-> 0]
RecordOf(id, rhs) == RecordPreamble \o Protected(id, rhs) \o Crc(Protected(id, rhs))
RecordLength == Len(RecordOf(0, 0))

\* encode_repeated_record: the record, copy after copy.
Copies(record, n) ==
  Bits([i \in 1..(Len(record) * n) |-> record[((i - 1) % Len(record)) + 1]])

Votes(bits, i, n) == [c \in 1..n |-> bits[i + (c - 1) * RecordLength]]
Minority(votes) ==
  LET ones == Cardinality({c \in DOMAIN votes : votes[c] = 1})
  IN  IF 2 * ones <= Len(votes) THEN ones ELSE Len(votes) - ones

\* majority_decode_repeated_record, then the equation of the record: <<>> if
\* anything is wrong with it.  Doubts are bits outvoted, what a confidence is
\* short of 1.  Version and reserved bits are not looked at.
Reading(bits, n) ==
  LET record == Bits([i \in 1..RecordLength |-> MajorityOf(Votes(bits, i, n))])
      first == Len(RecordPreamble)
      last == RecordLength - CrcBits
      idFrom == first + Len(RecordVersion)
      id == BitsToInt(SubSeq(record, idFrom + 1, idFrom + IdBits))
  IN  IF /\ SubSeq(record, 1, first) = RecordPreamble
         /\ CrcMatches(SubSeq(record, first + 1, last), SubSeq(record, last + 1, RecordLength))
         /\ id <= MaxEquationId
      THEN <<[id |-> id, rhs |-> record[idFrom + IdBits + 1],
              doubts |-> FoldLeft(LAMBDA sum, i : sum + Minority(Votes(bits, i, n)), 0,
                                  [i \in 1..RecordLength |-> i])]>>
      ELSE <<>>

(***************************************************************************)
(* Tiles.                                                                  *)
(***************************************************************************)
RecordFits(n) == RecordLength * n <= TileBits

\* The tile of an equation; the bits behind the record stay as they are.
TileWith(old, id, key, n) ==
  LET bits == Copies(RecordOf(id, RhsFor(id, key)), n)
  IN  [i \in DOMAIN old |-> IF i <= Len(bits) THEN bits[i] ELSE old[i]]

\* Tile t has equation t - 1, as far as there are ids.
EmbedTiles(tiles, key, n) ==
  [t \in DOMAIN tiles |->
     IF t - 1 <= MaxEquationId THEN TileWith(tiles[t], t - 1, key, n) ELSE tiles[t]]

ReadTiles(tiles, n) ==
  FlattenSeq([t \in 1..Len(tiles) |->
    IF t - 1 <= MaxEquationId THEN Reading(tiles[t], n) ELSE <<>>])

\* Mutant of Prevails: the last reading of an id is kept.
LastPrevails(readings, i) ==
  \A j \in DOMAIN readings : readings[j].id = readings[i].id => j <= i

\* deduplicate_equations keeps reading i: more confident than those of the same
\* id before it, and no less than those after it.
Prevails(readings, i) ==
  \A j \in DOMAIN readings : readings[j].id = readings[i].id =>
    IF j < i THEN readings[i].doubts < readings[j].doubts
    ELSE readings[i].doubts <= readings[j].doubts

\* solve_manifest_key_from_equations: one row per id, in the order of the ids.
EquationsOf(readings) ==
  LET kept == {i \in DOMAIN readings : Prevails(readings, i)}
      Place(i) == Cardinality({j \in kept : readings[j].id <= readings[i].id})
      Nth(k) == readings[CHOOSE i \in kept : Place(i) = k]
  IN  [k \in 1..Cardinality(kept) |-> [mask |-> MaskOf(Nth(k).id), rhs |-> Nth(k).rhs]]
=============================================================================
