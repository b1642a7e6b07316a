------------------------------- MODULE Bytes --------------------------------
(***************************************************************************)
(* Fixed-width integers and the byte arrays the emulator keeps.            *)
(*                                                                         *)
(* uint8, uint16 and int8 are the C++ conversions of the same names: a     *)
(* store into a uint8_t keeps the value modulo 2^8, and so on.  An array   *)
(* is a function on the indices that hold a non-zero byte, so that two     *)
(* arrays with equal contents are equal and an all-zero one is empty.      *)
(***************************************************************************)
EXTENDS Integers

MaxByte == \hFF
MaxWord == \hFFFF

Byte == 0..MaxByte
Word == 0..MaxWord

uint8(n)  == n % \h100
uint16(n) == n % \h10000
int8(b)   == IF b < \h80 THEN b ELSE b - \h100

Lo(w) == w % \h100
Hi(w) == w \div \h100
Join(hi, lo) == \h100 * hi + lo

\* The bit of weight w of n, 0 or 1.  \div rounds down, so this is the bit of
\* the two's complement form when n is negative.
BitOf(n, w) == (n \div w) % 2

XorBit(a, b, w) == w * ((BitOf(a, w) + BitOf(b, w)) % 2)
XorByte(a, b) == XorBit(a, b, 1) + XorBit(a, b, 2) + XorBit(a, b, 4) + XorBit(a, b, 8)
               + XorBit(a, b, 16) + XorBit(a, b, 32) + XorBit(a, b, 64) + XorBit(a, b, 128)

Zeros == [i \in {} |-> 0]

At(array, i) == IF i \in DOMAIN array THEN array[i] ELSE 0

Store(array, i, b) ==
  LET held == IF b = 0 THEN DOMAIN array \ {i} ELSE DOMAIN array \cup {i}
  IN  [j \in held |-> IF j = i THEN b ELSE array[j]]

\* array has indices 0 .. size-1 and holds bytes.
IsArray(array, size) ==
  /\ array \in [DOMAIN array -> Byte]
  /\ DOMAIN array \subseteq 0..(size - 1)
=============================================================================
