---------------------------- MODULE SignalCoding ----------------------------
(***************************************************************************)
(* How dbcppp takes a signal's value out of a frame and puts it into one.  *)
(* A word of 64 bits is the set of the numbers of its one bits, a frame is *)
(* the set of its one bits, bit b of byte i being 8 * i + b; a shift moves *)
(* the numbers, a mask intersects.  A reader loads eight bytes at a time,  *)
(* whether the frame has them or not: what lies past the frame is in the   *)
(* set it is given.                                                        *)
(***************************************************************************)
EXTENDS Integers, FiniteSets

Word == 0 .. 63
ShiftLeft(w, n) == {b + n : b \in {x \in w : x + n <= 63}}
ShiftRight(w, n) == {b - n : b \in {x \in w : x >= n}}
Swapped(w) == {8 * (7 - b \div 8) + (b % 8) : b \in w}          \* BSWAP_64
LoadWord(frame, byte) == {b - 8 * byte : b \in frame \cap 8 * byte .. 8 * byte + 63}
LoadByte(frame, byte) == {b - 8 * byte : b \in frame \cap 8 * byte .. 8 * byte + 7}

\* A layout: start bit, size in bits, "little" or "big" endian, signed or
\* not, and how the raw value is read: "integer", "float" or "double".
Layout(start, size, order, signed, extended) ==
  [start |-> start, size |-> size, order |-> order, signed |-> signed, extended |-> extended]

Exceeds(l, messageSize) ==
  LET size == IF messageSize < 8 THEN 8 ELSE messageSize IN
  IF l.order = "little" THEN l.start + l.size > size * 8
  ELSE LET bits == l.size + (7 - (l.start % 8))
       IN (l.start - (l.start % 8)) + ((bits - 1) \div 8) * 8 >= size * 8
WrongSize(l) ==
  \/ l.extended = "float" /\ l.size # 32
  \/ l.extended = "double" /\ l.size # 64
Errors(l, messageSize) ==
  (IF Exceeds(l, messageSize) THEN {"SignalExceedsMessageSize"} ELSE {})
    \cup (IF WrongSize(l) THEN {"WrongBitSizeForExtendedDataType"} ELSE {})
-----------------------------------------------------------------------------
\* Mutant: a Motorola signal one bit too low.
FixedStartLower(l, start) ==
  IF l.order = "little" THEN start
  ELSE 8 * (7 - start \div 8) + (start % 8) - l.size

(***************************************************************************)
(* What Signal's constructor works out once: the word to load (`byte`), by *)
(* how much to shift it and what to mask, and for a signal that lies in    *)
(* nine bytes the same for the ninth.                                      *)
(***************************************************************************)
FixedStart(l, start) ==
  IF l.order = "little" THEN start
  ELSE 8 * (7 - start \div 8) + (start % 8) - (l.size - 1)
Prepared(l) ==
  LET byte == l.start \div 8
      bytes == IF l.order = "little" THEN ((l.start % 8) + l.size + 7) \div 8
               ELSE (l.size + (7 - (l.start % 8)) + 7) \div 8
      aligned == byte - (byte % 8)
      Plan(alignment, at, shift0, shift1, mask) ==
        [alignment |-> alignment, byte |-> at, shift0 |-> shift0, shift1 |-> shift1, mask |-> mask,
         signMask |-> l.size - 1 .. 63]
      whole == 0 .. l.size - 1
  IN IF byte + bytes <= 8 THEN Plan("first", 0, FixedStart(l, l.start), 0, whole)
     ELSE IF (byte % 8) + bytes <= 8
       THEN Plan("fits", aligned, FixedStart(l, l.start - 8 * aligned), 0, whole)
     ELSE IF bytes <= 8 THEN Plan("fits", byte, FixedStart(l, l.start - 8 * byte), 0, whole)
     ELSE IF l.order = "big"
       THEN LET last == (7 - (l.start % 8)) + l.size - 64
            IN Plan("straddles", byte, last, 8 - last, 0 .. (l.start % 8) + 56)
       ELSE LET last == l.size + (l.start % 8) - 64
            IN Plan("straddles", byte, l.start - 8 * byte, 64 - (l.start % 8), 0 .. last - 1)

SignExtended(l, plan, data) ==
  IF l.signed /\ data \cap plan.signMask # {} THEN data \cup plan.signMask ELSE data

\* template_decode.
Decode(l, frame) ==
  LET plan == Prepared(l)
      loaded == LoadWord(frame, plan.byte)
      data == IF l.order = "big" THEN Swapped(loaded) ELSE loaded
      ninth == LoadByte(frame, plan.byte + 8)
      joined == IF l.order = "big"
                THEN ShiftLeft(data \cap plan.mask, plan.shift0) \cup ShiftRight(ninth, plan.shift1)
                ELSE ShiftRight(data, plan.shift0)
                       \cup ShiftLeft(ninth \cap plan.mask, plan.shift1)
      shifted == ShiftRight(data, plan.shift0) \cap plan.mask
  IN IF plan.alignment = "straddles"
     THEN IF l.extended # "integer" THEN joined ELSE SignExtended(l, plan, joined)
     ELSE IF l.extended = "double" THEN data
     ELSE IF l.extended = "float" THEN shifted
     ELSE SignExtended(l, plan, shifted)
-----------------------------------------------------------------------------
\* The bits of a frame that encode() writes, one for each bit of the value:
\* a little endian signal runs upwards, a big endian one down each byte from
\* the top and on to the next byte (in `Mirrored` numbers: upwards).
Mirrored(b) == 8 * (b \div 8) + 7 - (b % 8)
Places(l) ==
  [i \in 0 .. l.size - 1 |->
     IF l.order = "little" THEN l.start + i
     ELSE Mirrored(Mirrored(l.start) + (l.size - 1 - i))]

\* Mutant: Motorola signals are written like Intel ones.
EncodeUpwards(l, raw, frame) ==
  LET all == {l.start + i : i \in 0 .. l.size - 1}
  IN (frame \ all) \cup {l.start + i : i \in raw \cap 0 .. l.size - 1}

Encode(l, raw, frame) ==
  LET places == Places(l)
      ones == {places[i] : i \in raw \cap DOMAIN places}
      all == {places[i] : i \in DOMAIN places}
  IN (frame \ all) \cup ones
=============================================================================
