------------------------------ MODULE Opcodes ------------------------------
(***************************************************************************)
(* The instruction set.  An instruction is one byte.  Up to LOAD the high  *)
(* four bits are the operation and the low four a register; from JIF on    *)
(* the byte is the operation; the last five families keep the number of an *)
(* interrupt in the low two bits.                                          *)
(***************************************************************************)
EXTENDS Integers

READ == 0
CPY == 1
SET == 2
ADD == 3
AND == 4
OR == 5
XOR == 6
NOT == 7
LSL == 8
LSR == 9
EQ == 10
LES == 11
STR == 12
LOAD == 13

JIF == 224
CALL == 225
RET == 226
POP == 227
PUSH == 228
CC2 == 229
CMPNOT == 230
TBM == 231
QUIT == 232
DEBUG == 233
ATOM == 234
RETINT == 235

SETINT == 236
GETINT == 240
GETINTSTACK == 244
SETINTSTACK == 248
SOFTINT == 252

Opperand(instruction) == instruction \div 16
RegOf(instruction) == instruction % 16

(* The byte of the instruction "op r". *)
Inst(op, r) == 16 * op + r

WR_REG == 0
SR_REG == 13
PC_REG == 14
SP_REG == 15
=============================================================================
