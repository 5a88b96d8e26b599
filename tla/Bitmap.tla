------------------------------- MODULE Bitmap -------------------------------
(***************************************************************************)
(* bitmap.c: a bitmap is an array of chars, a char the set of the offsets  *)
(* of its bits that are 1, counted from the most significant one.          *)
(***************************************************************************)
EXTENDS Integers

CONSTANT CharBits  \* bits in a char
ASSUME BitmapAssumption == CharBits \in Nat \ {0}

Bitmaps(size) == [0 .. size - 1 -> SUBSET (0 .. CharBits - 1)]
Cleared(size) == [index \in 0 .. size - 1 |-> {}]

\* A position is passed as an unsigned short.
Short(n) == n % 65536
InBitmap(position, size) == Short(position) < size * CharBits

\* The array after set_bitmap, which has refused a position out of bounds.
set_bitmap(position, bits) ==
    [bits EXCEPT ![Short(position) \div CharBits] = @ \cup {Short(position) % CharBits}]

get_bitmap(position, bits, size) ==
    IF ~InBitmap(position, size) THEN -1
    ELSE IF Short(position) % CharBits \in bits[Short(position) \div CharBits] THEN 1 ELSE 0
=============================================================================
