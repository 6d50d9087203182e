------------------------------ MODULE MCMemory ------------------------------
(***************************************************************************)
(* Programs for the accesses to the RAM on a machine of 16-bit words with  *)
(* 64 bytes of RAM.  The program takes from its data an address, a value   *)
(* and a status register, sets the routine of the alignment trap, which is *)
(* that of the timer of interrupt 1 too, and runs a few accesses with the  *)
(* stack pointer at that address.                                          *)
(***************************************************************************)
EXTENDS TrapWatch, TLC

MCRamSize == 64

Word16(v) == <<v % 256, v \div 256>>

Magic == <<65, 83, 82, 77>>

R1 == 1
R2 == 2

LoadConst(cell) == <<Inst(SET, cell), Inst(LOAD, WR_REG)>>

(* At 4: jump to 16.  At 8: the routine of the trap, the status register,  *)
(* the address and the value.                                              *)
Header(status, addr, value) ==
    Magic \o <<Inst(SET, 4), Inst(ADD, WR_REG), Inst(ADD, WR_REG), Inst(CPY, PC_REG)>>
        \o Word16(40) \o Word16(status) \o Word16(addr) \o Word16(value)

(* At 16: R1 = SP = the address, R2 = WR = the value. *)
Setup ==
    LoadConst(8) \o <<SETINT, SETINT + 1>>
        \o LoadConst(14) \o <<Inst(CPY, R2)>>
        \o LoadConst(12) \o <<Inst(CPY, R1), Inst(CPY, SP_REG)>>
        \o LoadConst(10) \o <<Inst(CPY, SR_REG), Inst(READ, R2)>>

(* At 40: the routine makes the access again, and turns the trap off.      *)
Routine == <<Inst(LOAD, R1), Inst(SET, 0), Inst(CPY, SR_REG), RETINT>>

Bodies ==
    {<<Inst(STR, R1), Inst(LOAD, R1)>>,
     <<TBM, Inst(STR, R1), TBM, Inst(LOAD, R1)>>,
     <<PUSH, POP>>,
     <<TBM, PUSH, Inst(SET, 0), POP>>,
     <<POP, PUSH>>,
     <<CALL>>,
     <<PUSH, RET>>,
     <<Inst(READ, R1), ATOM, ATOM>>}

Pad(bytes, n) == bytes \o [i \in 1..(n - Len(bytes)) |-> QUIT]

ProgramOf(status, addr, value, body) ==
    Pad(Pad(Header(status, addr, value) \o Setup \o body, 40) \o Routine, MCRamSize)

MCImages ==
    {[a \in 0..(MCRamSize - 1) |-> ProgramOf(status, addr, value, body)[a + 1]] :
        status \in {0, 34, 38, 256, 256 + 34, 512 + 38, 768, 768 + 34, 1024,
                    1280 + 34, 1536, 36 * 256 + 34},
        addr \in {32, 44, 48, 49, 50, 51, 61, 62, 63, 64},
        value \in {4660, 41},
        body \in Bodies}

(* No timer, or one that fires at each instruction of the body in turn.    *)
MCTimers == {<<>>} \cup {1 :> f : f \in 19..23}
=============================================================================
