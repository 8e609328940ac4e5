--------------------------- MODULE WatermarkFrame ---------------------------
(***************************************************************************)
(* The bits of a watermark: the payload with its CRC, the sync frame       *)
(* around it and the repetition code (oprow/watermark/{bits, crc, ecc,     *)
(* payload}.py).  The widths of the fields are constants, so that an       *)
(* instance can be small.                                                  *)
(***************************************************************************)
EXTENDS Integers, Sequences, SequencesExt, FiniteSets

CONSTANTS
  VersionBits, AlgBits, FlagBits,    \* 4, 12, 8
  FullBits, ShortBits,               \* 160, 64
  CrcPoly,                           \* 0x1021, as bits
  Preamble,                          \* "OPRW"
  LengthBits,                        \* 16
  MaxScan                            \* max_preamble_scan_bits, 64

ASSUME FieldAssumption ==
  /\ {VersionBits, AlgBits, FullBits, ShortBits, LengthBits} \subseteq Nat \ {0}
  /\ FlagBits \in Nat \ {0, 1} /\ MaxScan \in Nat
  /\ {CrcPoly, Preamble} \subseteq Seq({0, 1}) \ {<<>>}

\* A recursive function, since the provers know nothing of ^.
PowerOfTwo[n \in Nat] == IF n = 0 THEN 1 ELSE 2 * PowerOfTwo[n - 1]

IntToBits(value, width) == [i \in 1..width |-> (value \div PowerOfTwo[width - i]) % 2]
BitsToInt(bits) == FoldLeft(LAMBDA n, b : 2 * n + b, 0, bits)
XorBits(a, b) == [i \in DOMAIN a |-> (a[i] + b[i]) % 2]

(***************************************************************************)
(* The CRC, most significant bit first; the register starts with ones.     *)
(***************************************************************************)
CrcBits == Len(CrcPoly)
CrcShift(register, bit) ==
  LET shifted == Append(Tail(register), 0)
  IN  IF register[1] # bit THEN XorBits(shifted, CrcPoly) ELSE shifted
Crc(bits) == FoldLeft(CrcShift, [i \in 1..CrcBits |-> 1], bits)

(***************************************************************************)
(* The repetition code.                                                    *)
(***************************************************************************)
\* Mutant of MajorityOf: one vote is enough.
AnyOne(votes) == IF \E i \in DOMAIN votes : votes[i] = 1 THEN 1 ELSE 0

MajorityOf(votes) ==
  LET ones == Cardinality({i \in DOMAIN votes : votes[i] = 1})
  IN  IF 2 * ones > Len(votes) THEN 1 ELSE 0

\* A bit sequence that TLC evaluates once and keeps.
Bits(sequence) == sequence \o <<>>

Repeated(bits, n) == Bits([i \in 1..(Len(bits) * n) |-> bits[(i - 1) \div n + 1]])

\* Incomplete groups at the end are ignored.
Unrepeated(bits, n) ==
  Bits([g \in 1..(Len(bits) \div n) |-> MajorityOf(SubSeq(bits, (g - 1) * n + 1, g * n))])

(***************************************************************************)
(* The payload: version, algorithm, flags with the pointer mode, pointer   *)
(* and CRC.                                                                *)
(***************************************************************************)
Modes == <<"FULL160", "SHORT64", "SHORT64_HV", "FULL160_RATELESS">>
FlagOf(mode) == CHOOSE f \in 0..3 : Modes[f + 1] = mode
PointerBits(mode) == IF mode \in {"FULL160", "FULL160_RATELESS"} THEN FullBits ELSE ShortBits
HeaderBits == VersionBits + AlgBits + FlagBits

\* ManifestLocator, without the derivation profile, which is fixed by the mode.
Locator(mode, pointer) == [mode |-> mode, pointer |-> pointer]

\* WatermarkPayload: fields in range, and a pointer of the mode's kind.
LegalPayload(p) ==
  /\ p.version \in 0..(PowerOfTwo[VersionBits] - 1) /\ p.alg \in 0..(PowerOfTwo[AlgBits] - 1)
  /\ p.locator.mode \in ToSet(Modes) /\ Len(p.locator.pointer) = PointerBits(p.locator.mode)

Payload(version, alg, locator) == [version |-> version, alg |-> alg, locator |-> locator]

BitsWithoutCrc(p) ==
  IntToBits(p.version, VersionBits) \o IntToBits(p.alg, AlgBits)
    \o IntToBits(FlagOf(p.locator.mode), FlagBits) \o p.locator.pointer

PayloadBits(p) == BitsWithoutCrc(p) \o Crc(BitsWithoutCrc(p))

\* int_to_bits refuses a payload that is longer than the length field can say.
ASSUME LengthAssumption ==
  \A mode \in ToSet(Modes) :
    HeaderBits + PointerBits(mode) + CrcBits < PowerOfTwo[LengthBits]

\* The polynomial's part: no two payloads are two bits apart or less, as with
\* CRC-16-CCITT up to 32,767 bits.
BitsApart(a, b) == {i \in DOMAIN a : a[i] # b[i]}
ASSUME DistanceAssumption ==
  \A mode \in ToSet(Modes) :
    LET Words == [1..(HeaderBits + PointerBits(mode)) -> {0, 1}]
    IN  \A a, b \in Words :
          a # b /\ Cardinality(BitsApart(a, b)) <= 2
            => Cardinality(BitsApart(a, b)) + Cardinality(BitsApart(Crc(a), Crc(b))) > 2

\* What decoding comes to: a locator, or why there is none.
Extracted(locator) == [status |-> "extracted", locator |-> <<locator>>]
NoWatermark == [status |-> "no_watermark", locator |-> <<>>]
CrcFailed == [status |-> "crc_failed", locator |-> <<>>]

\* Mutant of CrcMatches: the checksum is read and not compared.
CrcIgnored(protected, crc) == TRUE

CrcMatches(protected, crc) == Crc(protected) = crc

\* decode_bits.  Version and algorithm are not looked at.
DecodeBits(bits) ==
  IF Len(bits) < HeaderBits THEN NoWatermark
  ELSE LET mode == Modes[(BitsToInt(SubSeq(bits, VersionBits + AlgBits + 1, HeaderBits)) % 4) + 1]
           end == HeaderBits + PointerBits(mode)
       IN  IF Len(bits) < end + CrcBits THEN NoWatermark
           ELSE IF CrcMatches(SubSeq(bits, 1, end), SubSeq(bits, end + 1, end + CrcBits))
                THEN Extracted(Locator(mode, SubSeq(bits, HeaderBits + 1, end)))
                ELSE CrcFailed

(***************************************************************************)
(* The frame: preamble, length, payload, each bit repeated.                *)
(***************************************************************************)
FrameBits(p) == Preamble \o IntToBits(Len(PayloadBits(p)), LengthBits) \o PayloadBits(p)

EncodePayload(p, repetitions) == Repeated(FrameBits(p), repetitions)

PreambleOffsets(bits) ==
  {o \in 0..Len(bits) : /\ o <= MaxScan /\ o + Len(Preamble) <= Len(bits)
                        /\ SubSeq(bits, o + 1, o + Len(Preamble)) = Preamble}

\* decode_payload: the first preamble decides.
DecodeFrame(bits) ==
  IF PreambleOffsets(bits) = {} THEN NoWatermark
  ELSE LET offset == CHOOSE o \in PreambleOffsets(bits) : \A q \in PreambleOffsets(bits) : o <= q
           start == offset + Len(Preamble) + LengthBits
           length == BitsToInt(SubSeq(bits, start - LengthBits + 1, start))
       IN  IF Len(bits) < start \/ Len(bits) < start + length THEN NoWatermark
           ELSE DecodeBits(SubSeq(bits, start + 1, start + length))

DecodePayload(carrier, repetitions) == DecodeFrame(Unrepeated(carrier, repetitions))
=============================================================================
