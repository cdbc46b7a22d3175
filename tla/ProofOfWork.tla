------------------------------ MODULE ProofOfWork ------------------------------
(***************************************************************************)
(* The test that ends the search for a block, and that every other node    *)
(* repeats: whether a hash begins with so many zero bits.  A hash is a     *)
(* sequence of bytes, most significant bit first.                          *)
(***************************************************************************)
EXTENDS Integers, Sequences

Byte == 0..255

TwoTo(k) ==
  CASE k = 0 -> 1 [] k = 1 -> 2 [] k = 2 -> 4 [] k = 3 -> 8 [] k = 4 -> 16
    [] k = 5 -> 32 [] k = 6 -> 64 [] k = 7 -> 128 [] k = 8 -> 256

\* The shift >> of an unsigned byte.
ShiftRight(b, k) == b \div TwoTo(k)

\* check_leading_zeroes: the whole bytes are zero, and the bits that remain,
\* of the next byte, are too.
CheckLeadingZeroes(hash, difficulty) ==
  LET fullBytes == difficulty \div 8
      remainingBits == difficulty % 8
  IN  /\ \A i \in 1..Len(hash) : i <= fullBytes => hash[i] = 0
      /\ remainingBits > 0 =>
           /\ fullBytes < Len(hash)
           /\ ShiftRight(hash[fullBytes + 1], 8 - remainingBits) = 0

-----------------------------------------------------------------------------

\* What it is to mean: bit i of a byte, and of a hash, counted from 0.
BitOfByte(b, i) == (b \div TwoTo(7 - i)) % 2
Bit(hash, j) == BitOfByte(hash[j \div 8 + 1], j % 8)

BeginsWithZeroes(hash, n) == \A j \in 0..(n - 1) : Bit(hash, j) = 0
=============================================================================
