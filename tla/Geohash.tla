-------------------------------- MODULE Geohash --------------------------------
(***************************************************************************)
(* geohash.rs at its full width.  A number of up to 64 bits is the set of   *)
(* the positions of its ones, so shifts move positions and masks intersect. *)
(*                                                                          *)
(* A coordinate is given by its cell, what normalisation and truncation     *)
(* make of it: from 0 to 2^STEP, and 2^STEP only at the upper end of the    *)
(* range.  The distances, which are trigonometry, are left out.             *)
(***************************************************************************)
EXTENDS Integers, FiniteSetsExt

STEP == 26

Cells == (SUBSET (0..STEP - 1)) \cup {{STEP}}

\* x << n and x >> n, and the mask 0x..: of each 2n bits the lower n.
ShiftLeft(x, n) == {i + n : i \in x} \cap 0..63
ShiftRight(x, n) == {i - n : i \in x} \cap 0..63
Mask(n) == {i \in 0..63 : i % (2 * n) < n}

\* The order of the numbers.
Below(x, y) == x # y /\ Max(SymDiff(x, y)) \in y

-----------------------------------------------------------------------------
SpreadBy(x, n) == (x \cup ShiftLeft(x, n)) \cap Mask(n)
CompactBy(x, n) == (x \cup ShiftRight(x, n)) \cap Mask(2 * n)

\* Fault to detect: the first halving is forgotten, which small numbers survive.
SpreadFromByte(x) == SpreadBy(SpreadBy(SpreadBy(SpreadBy(x, 8), 4), 2), 1)

spread_u32_to_u64(x) == SpreadBy(SpreadBy(SpreadBy(SpreadBy(SpreadBy(x, 16), 8), 4), 2), 1)

compact_u64_to_u32(x) ==
    CompactBy(CompactBy(CompactBy(CompactBy(CompactBy(x \cap Mask(1), 1), 2), 4), 8), 16)

interleave(long, lat) == spread_u32_to_u64(lat) \cup ShiftLeft(spread_u32_to_u64(long), 1)

deinterleave(score) == <<compact_u64_to_u32(ShiftRight(score, 1)), compact_u64_to_u32(score)>>

\* `as f64` keeps 53 bits.  Only the last longitude gives a code of 54: it loses bit
\* 0, a tie that goes to the even neighbour below since bit 1 is not set.
AsF64(x) == IF 53 \in x THEN x \ {0} ELSE x

encode(long, lat) == AsF64(interleave(long, lat))

\* The cell whose centre GEOPOS answers.
decode(score) == deinterleave(score)

=============================================================================
