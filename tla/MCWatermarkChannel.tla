------------------------ MODULE MCWatermarkChannel ------------------------
EXTENDS WatermarkChannel

\* x^4 + x + 1 detects two wrong bits in up to fifteen, as CRC-16-CCITT does in
\* up to 32,767.
ShortPoly == <<0, 0, 1, 1>>
ShortPreamble == <<0, 1, 0, 0>>
ShortRecordPreamble == <<0, 1>>
OneBitVersion == <<1>>

\* Three of four variables each; equation 4 has the mask of equation 0, and the
\* fifth mask is never embedded by an image with fewer tiles.
Masks == <<{0, 1, 2}, {0, 1, 3}, {0, 2, 3}, {1, 2, 3}, {0, 1, 2}>>
ThreeOfFour(id) == Masks[id + 1]

AllProfiles == {
  [kind |-> "lsb", repetitions |-> 3, spread |-> 1, delta |-> 1],
  [kind |-> "qim", repetitions |-> 1, spread |-> 1, delta |-> 3],
  [kind |-> "qim", repetitions |-> 1, spread |-> 3, delta |-> 3],
  [kind |-> "rateless", repetitions |-> 3, spread |-> 1, delta |-> 1]}

SomeLocators == {
  Locator("SHORT64", <<0, 1>>), Locator("FULL160", <<1, 1, 0, 1>>),
  Locator("FULL160_RATELESS", <<1, 0, 1, 1>>), Locator("FULL160_RATELESS", <<0, 1, 0, 1>>)}

\* Bits of the preamble, the length, the flags, the pointer and the checksum,
\* without repetitions and with three: neighbours, and copies of one bit.
SomeSpots == {2, 6, 8, 11, 12, 13, 14, 15, 17, 20, 34, 35, 41, 46, 53}

\* A preamble bit, an id bit and the right-hand side, in copies of their own.
SomeFlips == {1, 5, 18}
=============================================================================
