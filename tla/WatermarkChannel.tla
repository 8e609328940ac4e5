-------------------------- MODULE WatermarkChannel --------------------------
(***************************************************************************)
(* A locator's way through an image: embedded by one of the profiles,      *)
(* damaged on the way, and extracted.  A frame profile writes each bit     *)
(* into one carrier position: the alpha channel's low bit (image_lsb.py),  *)
(* a quantized coefficient (image_qim.py) or several of them               *)
(* (watermark_robust.py).  The rateless profile writes tiles.              *)
(***************************************************************************)
EXTENDS RatelessTiles

CONSTANTS
  Profiles,        \* [kind, repetitions, spread, delta]
  Locators,        \* what is embedded
  Capacity,        \* carrier positions of a frame profile's image
  NumTiles,
  Spots,           \* the positions of an image that noise may hit
  Flips,           \* the bits of a tile that noise may flip
  MaxChanges       \* bound on embeddings and damages

\* WatermarkStrength; RepetitionCode takes odd repetitions alone.  The step of a
\* lowest bit is one.
LegalStrength(p) ==
  /\ p.repetitions \in Nat /\ p.repetitions % 2 = 1
  /\ p.delta \in Nat \ {0} /\ (p.kind = "lsb" => p.delta = 1)

\* Only the robust profile writes a bit more than once.
LegalSpread(p) == p.spread \in Nat \ {0} /\ (p.spread > 1 => p.kind = "qim")

ASSUME ProfileAssumption ==
  \A p \in Profiles : p.kind \in {"lsb", "qim", "rateless"} /\ LegalStrength(p) /\ LegalSpread(p)

ASSUME LocatorsAssumption ==
  \A l \in Locators :
    /\ l = Locator(l.mode, l.pointer) /\ l.pointer \in Seq({0, 1})
    /\ LegalPayload(Payload(1, 1, l))

ASSUME SizesAssumption == {Capacity, NumTiles} \subseteq Nat

VARIABLES
  profile,
  image,           \* coefficients by position, or bits by tile
  clean,           \* history: the image as the last embedding left it, moved alike
  start,           \* history: position of the frame
  sent,            \* history: the locator embedded last, <<>> before
  changes,         \* embeddings and damages so far
  solving,         \* a rateless extraction is at work
  found            \* the last extraction's outcome, <<>> if the image has changed since
vars == <<profile, image, clean, start, sent, changes, solving, found, solverVars>>

Rateless == profile.kind = "rateless"

Blank(p) ==
  IF p.kind = "rateless" THEN [t \in 1..NumTiles |-> [b \in 1..TileBits |-> 1]]
  ELSE [i \in 1..Capacity |-> [c \in 1..p.spread |-> (i + c) % 5]]

Init ==
  /\ profile \in Profiles
  /\ image = Blank(profile) /\ clean = image /\ start = 0
  /\ sent = <<>> /\ changes = 0 /\ solving = FALSE /\ found = <<>>
  /\ SolverIdle

(***************************************************************************)
(* Coefficients.                                                           *)
(***************************************************************************)
\* round(value / delta), halves to the even neighbour.
Rounded(value, delta) ==
  LET q == (2 * value + delta) \div (2 * delta)
  IN  IF (2 * value + delta) % (2 * delta) = 0 /\ q % 2 = 1 THEN q - 1 ELSE q

Abs(n) == IF n < 0 THEN -n ELSE n

\* _qim_embed_coefficient: the nearest multiple of delta of the bit's parity.
Quantized(value, bit, delta) ==
  LET q == Rounded(value, delta)
      up == Abs(value - (q + 1) * delta)
      down == Abs(value - (q - 1) * delta)
  IN  delta * (IF q % 2 = bit THEN q
               ELSE IF up < down \/ (up = down /\ value >= 0) THEN q + 1 ELSE q - 1)

WriteBit(p, value, bit) ==
  IF p.kind = "lsb" THEN 2 * (value \div 2) + bit ELSE Quantized(value, bit, p.delta)

ReadBit(p, value) ==
  IF p.kind = "lsb" THEN value % 2 ELSE Rounded(value, p.delta) % 2

\* The robust profile's bit: in every coefficient, and read by their vote.
Spread(p, coefficients, bit) ==
  [c \in DOMAIN coefficients |-> WriteBit(p, coefficients[c], bit)]
Voted(p, coefficients) ==
  MajorityOf([c \in DOMAIN coefficients |-> ReadBit(p, coefficients[c])])

ReadBits(p, img) == Bits([i \in DOMAIN img |-> Voted(p, img[i])])

(***************************************************************************)
(* Embedding.                                                              *)
(***************************************************************************)
Embedded(locator, img) ==
  /\ image' = img /\ clean' = img /\ start' = 0 /\ sent' = <<locator>>
  /\ changes' = changes + 1 /\ found' = <<>>
  /\ UNCHANGED <<profile, solving, solverVars>>

\* embed of a frame profile, if the image has the capacity.
EmbedFrame ==
  /\ ~Rateless /\ changes < MaxChanges
  /\ \E locator \in Locators :
       LET bits == EncodePayload(Payload(1, 1, locator), profile.repetitions)
       IN  /\ Len(bits) <= Len(image)
           /\ Embedded(locator,
                [i \in DOMAIN image |->
                   IF i <= Len(bits) THEN Spread(profile, image[i], bits[i]) ELSE image[i]])

EmbedRateless ==
  /\ Rateless /\ changes < MaxChanges /\ ~solving
  /\ RecordFits(profile.repetitions) /\ image # <<>>
  /\ \E locator \in {l \in Locators : l.mode = "FULL160_RATELESS"} :
       Embedded(locator, EmbedTiles(image, KeyOf(locator.pointer), profile.repetitions))

(***************************************************************************)
(* Damage.                                                                 *)
(***************************************************************************)
Damaged(img) ==
  /\ changes < MaxChanges /\ sent # <<>> /\ ~solving
  /\ image' = img /\ changes' = changes + 1 /\ found' = <<>>
  /\ UNCHANGED <<profile, sent, solving, solverVars>>

\* A coefficient drifts by a little, or by a whole step.
Noise ==
  /\ ~Rateless
  /\ \E i \in DOMAIN image \cap Spots, c \in 1..profile.spread, d \in {1, profile.delta} :
       Damaged([image EXCEPT ![i][c] = @ + d])
  /\ UNCHANGED <<clean, start>>

\* Rows are put above the image, or its last ones are lost.  (The order of an
\* image's DCT blocks depends on its size, so those profiles lose everything.)
Shift ==
  /\ profile.kind = "lsb"
  /\ \E n \in 1..(2 * profile.repetitions), value \in {0, 1} :
       LET rows == [i \in 1..n |-> <<value>>]
       IN  Damaged(rows \o image) /\ clean' = rows \o clean /\ start' = start + n

Crop ==
  /\ profile.kind = "lsb"
  /\ \E n \in {1, Len(image) \div 2} :
       /\ Damaged(SubSeq(image, 1, Len(image) - n))
       /\ clean' = SubSeq(clean, 1, Len(clean) - n)
       /\ UNCHANGED start

\* A bit of a tile flips, a tile is wiped, comes twice, or is from an image
\* that carries another locator, with a bit flipped or none.
TileDamage ==
  /\ Rateless
  /\ \E t \in DOMAIN image :
       \/ \E b \in Flips : Damaged([image EXCEPT ![t][b] = 1 - @])
       \/ Damaged([image EXCEPT ![t] = Blank(profile)[t]])
       \/ \E u \in DOMAIN image : Damaged([image EXCEPT ![t] = image[u]])
       \/ \E l \in {x \in Locators : x.mode = "FULL160_RATELESS"}, b \in Flips \cup {0} :
            LET other == EmbedTiles(Blank(profile), KeyOf(l.pointer), profile.repetitions)[t]
            IN  Damaged([image EXCEPT
                  ![t] = IF b = 0 THEN other ELSE [other EXCEPT ![b] = 1 - @]])
  /\ UNCHANGED <<clean, start>>

(***************************************************************************)
(* Extraction.                                                             *)
(***************************************************************************)
ExtractFrame ==
  /\ ~Rateless /\ found = <<>>
  /\ found' = <<DecodePayload(ReadBits(profile, image), profile.repetitions)>>
  /\ UNCHANGED <<profile, image, clean, start, sent, changes, solving, solverVars>>

ExtractTiles ==
  /\ Rateless /\ ~solving /\ found = <<>>
  /\ solving' = TRUE
  /\ Solve(EquationsOf(ReadTiles(image, profile.repetitions)))
  /\ UNCHANGED <<profile, image, clean, start, sent, changes, found>>

Eliminate ==
  /\ solving
  /\ SolverStep
  /\ UNCHANGED <<profile, image, clean, start, sent, changes, solving, found>>

\* A system without a unique solution is no watermark, consistent or not.
FinishExtraction ==
  /\ solving /\ Finished
  /\ found' = <<IF Solved THEN Extracted(Locator("FULL160_RATELESS", PointerOf(Solution)))
                ELSE NoWatermark>>
  /\ solving' = FALSE
  /\ UNCHANGED <<profile, image, clean, start, sent, changes, solverVars>>

Next == \/ EmbedFrame \/ EmbedRateless
        \/ Noise \/ Shift \/ Crop \/ TileDamage
        \/ ExtractFrame \/ ExtractTiles \/ Eliminate \/ FinishExtraction

Spec == Init /\ [][Next]_vars

(***************************************************************************)
(* Properties.                                                             *)
(***************************************************************************)
FrameOut == ~Rateless /\ sent # <<>> /\ found # <<>>

Repetitions == profile.repetitions
FrameAt == start \div Repetitions
FrameEnd == FrameAt + Len(FrameBits(Payload(1, 1, sent[1])))

\* The frame is in the image, in step with the repetitions, and within reach of
\* the preamble scan.
InReach ==
  /\ start % Repetitions = 0 /\ FrameAt <= MaxScan
  /\ FrameEnd * Repetitions <= Len(image)

\* A carrier bit is lost if half of its coefficients or more have drifted by
\* half a step, and a decoded bit if half of its carrier bits or more are lost.
CarrierLost(i) ==
  2 * Cardinality({c \in DOMAIN image[i] : 2 * Abs(image[i][c] - clean[i][c]) >= profile.delta})
    >= profile.spread
BitLost(g) ==
  2 * Cardinality({i \in ((g - 1) * Repetitions + 1)..(g * Repetitions) : CarrierLost(i)})
    >= Repetitions

\* What the quantizer, the spread and the repetitions promise together: damage
\* that loses no bit is repaired, wherever the frame is within the scan's reach
\* and whatever an earlier embedding left behind it.
RepairsWithinBudget ==
  FrameOut /\ InReach /\ (\A g \in 1..FrameEnd : ~BitLost(g)) => found = <<Extracted(sent[1])>>

Decoded(img) == Unrepeated(ReadBits(profile, img), Repetitions)

\* Damage beyond repair is noticed: as long as the first preamble found is the
\* frame's and the mode flags are right, two wrong bits of the payload, and any
\* in the length field, are no locator at all rather than another one.
NeverAnotherLocator ==
  FrameOut /\ InReach =>
    LET got == Decoded(image)
        want == Decoded(clean)
        wrong == {g \in 1..FrameEnd : got[g] # want[g]}
        payloadAt == FrameAt + Len(Preamble) + LengthBits
        flagsAt == payloadAt + HeaderBits
    IN  /\ wrong \cap ((flagsAt - 1)..flagsAt) = {}
        /\ Cardinality({g \in wrong : g > payloadAt}) <= 2
        /\ PreambleOffsets(got) # {}
        /\ FrameAt \in PreambleOffsets(got) /\ \A o \in PreambleOffsets(got) : FrameAt <= o
        => found[1].locator \in {<<>>, sent}

\* A rateless watermark survives the loss of tiles, and foreign tiles that were
\* read with more doubt than a genuine copy of the same equation: the key comes
\* back exactly if the equations left determine it, and never another one.
IntactTilesSuffice ==
  Rateless /\ sent # <<>> /\ found # <<>> =>
    LET readings == ReadTiles(image, Repetitions)
        key == KeyOf(sent[1].pointer)
        Genuine(r) == r.rhs = RhsFor(r.id, key)
        determined == \A other \in SUBSET Unknowns :
          (\A i \in DOMAIN readings : RhsFor(readings[i].id, other) = RhsFor(readings[i].id, key))
            => other = key
    IN  (\A i \in DOMAIN readings : ~Genuine(readings[i]) =>
           \E j \in DOMAIN readings :
             /\ readings[j].id = readings[i].id /\ Genuine(readings[j])
             /\ readings[j].doubts < readings[i].doubts)
        => found = <<IF determined THEN Extracted(sent[1]) ELSE NoWatermark>>
=============================================================================
