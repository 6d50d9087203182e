--------------------------- MODULE MCUndisturbed ---------------------------
(***************************************************************************)
(* Programs for Undisturbed, on a machine of 8-bit words and 96 bytes of   *)
(* RAM.  The routine of interrupt 1 is that of software/test_interrupt.asm *)
(* and counts in R9; the routine of interrupt 0, which may nest in it,     *)
(* also saves and restores the status register.                            *)
(***************************************************************************)
EXTENDS Undisturbed, TLC

MCRamSize == 96

R(n) == n
Routine1 == 64
Routine0 == 72
Stack == 84
Subroutine == 60

Magic == <<65, 83, 82, 77>>

(* The two routines, the stack pointer, and SR = 6. *)
Prologue ==
    <<Inst(SET, 4), Inst(CPY, R(12)), Inst(LSL, R(12)), Inst(CPY, R(11)), SETINT + 1,
      Inst(SET, 8), Inst(ADD, R(11)), Inst(CPY, R(10)), SETINT,
      Inst(SET, 12), Inst(ADD, R(10)), Inst(CPY, SP_REG),
      Inst(SET, 6), Inst(CPY, SR_REG)>>

Count ==
    <<PUSH, Inst(SET, 1), Inst(ADD, R(9)), Inst(CPY, R(9)), DEBUG, POP, RETINT>>

SaveStatus ==
    <<PUSH, Inst(READ, SR_REG), PUSH, Inst(SET, 0), Inst(EQ, R(9)),
      POP, Inst(CPY, SR_REG), POP, RETINT>>

Arithmetic ==
    <<Inst(SET, 11), Inst(CPY, R(1)), Inst(SET, 6), Inst(XOR, R(1)), Inst(CPY, R(2)),
      Inst(SET, 3), Inst(LSL, R(2)), Inst(OR, R(1)), Inst(AND, R(2)), CC2,
      Inst(NOT, R(1)), Inst(CPY, R(3)), Inst(SET, 2), Inst(CPY, R(4)), Inst(READ, R(3)),
      Inst(LSR, R(4)), Inst(LES, R(3)), CMPNOT, DEBUG, Inst(EQ, R(3)), GETINT + 1,
      GETINTSTACK + 2>>

(* Counts R1 down from 3. *)
Loop ==
    <<Inst(SET, 1), CC2, Inst(CPY, R(2)), Inst(SET, 3), Inst(CPY, R(1)),
      Inst(READ, PC_REG), Inst(CPY, R(5)),
      Inst(READ, R(1)), Inst(ADD, R(2)), Inst(CPY, R(1)),
      Inst(SET, 0), Inst(EQ, R(1)), CMPNOT, Inst(READ, R(5)), JIF>>

(* Calls the subroutine at 60, takes a lock at 83, and uses the stack. *)
Calls ==
    <<Inst(SET, 2), Inst(CPY, R(6)), Inst(SET, 15), Inst(LSL, R(6)), CALL,
      Inst(SET, 11), Inst(ADD, R(10)), Inst(CPY, R(8)), Inst(SET, 0), Inst(STR, R(8)),
      Inst(READ, R(8)), ATOM, TBM, ATOM,
      Inst(SET, 5), PUSH, Inst(READ, SR_REG), POP, Inst(LOAD, R(8))>>

(* Prints a character and reads one. *)
Echo ==
    <<Inst(SET, 1), Inst(CPY, R(2)), Inst(SET, 7), Inst(STR, R(2)),
      Inst(SET, 0), Inst(STR, R(1)), DEBUG,
      Inst(SET, 2), Inst(CPY, R(3)), Inst(SET, 0), Inst(STR, R(3)),
      Inst(SET, 3), Inst(CPY, R(4)), Inst(LOAD, R(4))>>

Pad(bytes, n) == bytes \o [i \in 1..(n - Len(bytes)) |-> QUIT]

ProgramOf(body) ==
    Pad(Pad(Pad(Pad(Magic \o Prologue \o body, Subroutine)
        \o <<PUSH, POP, RET>>, Routine1) \o Count, Routine0) \o SaveStatus, MCRamSize)

MCImages ==
    {[a \in 0..(MCRamSize - 1) |-> ProgramOf(body)[a + 1]] :
        body \in {Arithmetic, Loop, Calls, Echo}}

MCTimers ==
    {1 :> f : f \in 8..24} \cup {0 :> g : g \in 10..20}
      \cup {1 :> f @@ 0 :> g : f \in {9, 13, 20}, g \in 26..34}
=============================================================================
