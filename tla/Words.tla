------------------------------- MODULE Words -------------------------------
(***************************************************************************)
(* Machine words as natural numbers: the bit operators of C that the       *)
(* simulator uses.  A bitwise operator is the set operator on the sets of  *)
(* positions of the bits that are one.                                     *)
(***************************************************************************)
EXTENDS Integers, FiniteSetsExt

(* word_t is uint64_t.  A model keeps HostBits of its 64 bits: at least the *)
(* bits of a word of the machine and the bits of a RAM address.            *)
CONSTANT HostBits

ASSUME HostBitsAssumption == HostBits \in 1..64

HostMod == 2^HostBits

(* Bit i of the word v. *)
Bit(v, i) == (v \div 2^i) % 2 = 1

Bits(v) == {i \in 0..(HostBits - 1) : Bit(v, i)}

FromBits(S) == SumFunction([i \in S |-> 2^i])

BitAnd(v, w) == FromBits(Bits(v) \cap Bits(w))
BitOr(v, w)  == FromBits(Bits(v) \cup Bits(w))
BitXor(v, w) == FromBits((Bits(v) \cup Bits(w)) \ (Bits(v) \cap Bits(w)))

(* The value of v << s kept modulo 2^width, without an intermediate value  *)
(* above 2^width, and the value of v >> s.                                 *)
ShiftLeft(v, s, width) == IF s >= width THEN 0 ELSE (v % 2^(width - s)) * 2^s
ShiftRight(v, s) == IF s >= HostBits THEN 0 ELSE v \div 2^s
=============================================================================
