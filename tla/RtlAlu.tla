------------------------------- MODULE RtlAlu -------------------------------
(***************************************************************************)
(* The ALU of the processor (rtl/reflet_alu.v).  It has no state: what it  *)
(* gives to write, and the register to write it to, for an instruction and *)
(* the registers that the instruction reads.  An instruction of another    *)
(* unit gives 0 for both.                                                  *)
(***************************************************************************)
EXTENDS Words, Opcodes

CONSTANT WordBytes   \* wordsize / 8

WordBits == 8 * WordBytes
WordMod == 2^WordBits

alu_nocmp(i, wr, other) ==
    CASE Opperand(i) = ADD  -> (wr + other) % WordMod
      [] Opperand(i) = AND  -> BitAnd(wr, other)
      [] Opperand(i) = OR   -> BitOr(wr, other)
      [] Opperand(i) = XOR  -> BitXor(wr, other)
      [] Opperand(i) = NOT  -> WordMod - 1 - other
      [] Opperand(i) = LSL  -> ShiftLeft(wr, other, WordBits)
      [] Opperand(i) = LSR  -> ShiftRight(wr, other)
      [] i = CC2            -> (WordMod - wr) % WordMod
      [] Opperand(i) = CPY \/ i \in {JIF, DEBUG} -> wr
      [] Opperand(i) = SET  -> RegOf(i)
      [] Opperand(i) = READ -> other
      [] OTHER -> 0

(* Mutant: the operands of LES are swapped. *)
cmpSwapped(i, wr, other, sr) ==
    \/ Opperand(i) = EQ  /\ wr = other
    \/ Opperand(i) = LES /\ other < wr
    \/ i = CMPNOT /\ ~Bit(sr, 0)

cmp(i, wr, other, sr) ==
    \/ Opperand(i) = EQ  /\ wr = other
    \/ Opperand(i) = LES /\ wr < other
    \/ i = CMPNOT /\ ~Bit(sr, 0)

cmp_opp(i) == Opperand(i) \in {EQ, LES} \/ i = CMPNOT

alu_out(i, wr, other, sr) ==
    IF cmp_opp(i)
    THEN (sr - (sr % 2)) + (IF cmp(i, wr, other, sr) THEN 1 ELSE 0)
    ELSE alu_nocmp(i, wr, other)

alu_out_reg(i, sr) ==
    IF cmp_opp(i) THEN SR_REG
    ELSE IF Opperand(i) = CPY THEN RegOf(i)
    ELSE IF i = JIF /\ Bit(sr, 0) THEN PC_REG
    ELSE WR_REG
=============================================================================
