------------------------------- MODULE MCRtl -------------------------------
(***************************************************************************)
(* Programs for the processor and the simulator side by side, on a machine *)
(* of 16-bit words and 128 bytes of memory.  The routine of interrupt 1    *)
(* uses the stack and a register, that of interrupt 0, which may nest in   *)
(* it, saves and restores the status register; both leave everything as    *)
(* they found it.                                                          *)
(***************************************************************************)
EXTENDS RtlLockstep, Sequences

MCRamSize == 128
MCStackBase == 96

R(n) == n
Subroutine == 60
Routine1 == 64
Routine0 == 72

Magic == <<65, 83, 82, 77>>

(* The two routines and the stack pointer. *)
Prologue ==
    <<Inst(SET, 4), Inst(CPY, R(12)), Inst(LSL, R(12)), Inst(CPY, R(11)), SETINT + 1,
      Inst(SET, 8), Inst(ADD, R(11)), Inst(CPY, R(10)), SETINT,
      Inst(SET, 6), Inst(LSL, R(12)), Inst(CPY, SP_REG)>>

Enable(sr) == <<Inst(SET, sr), Inst(CPY, SR_REG)>>

MCRoutine1 == <<PUSH, Inst(READ, R(1)), Inst(NOT, WR_REG), POP, RETINT>>

SaveStatus ==
    <<PUSH, Inst(READ, SR_REG), PUSH, Inst(SET, 0), Inst(EQ, WR_REG),
      POP, Inst(CPY, SR_REG), POP, RETINT>>

(* The routine of 0 for the trap: the address in R7 becomes that of R5.    *)
Realign == <<PUSH, Inst(READ, R(5)), Inst(CPY, R(7)), POP, RETINT>>

Pad(bytes, n) == bytes \o [i \in 1..(n - Len(bytes)) |-> QUIT]

ImageOf(body, routine0) ==
    LET bytes == Pad(Pad(Pad(Pad(Magic \o Prologue \o body, Subroutine)
                 \o <<PUSH, POP, RET>>, Routine1) \o MCRoutine1, Routine0)
                 \o routine0, MCRamSize)
    IN  [a \in 0..(MCRamSize - 1) |-> bytes[a + 1]]

Both == 6        \* SR with interrupts 0 and 1 enabled

Arithmetic ==
    <<Inst(SET, 11), Inst(CPY, R(1)), Inst(SET, 6), Inst(XOR, R(1)), Inst(CPY, R(2)),
      Inst(SET, 3), Inst(LSL, R(2)), Inst(OR, R(1)), Inst(AND, R(2)), CC2,
      Inst(NOT, R(1)), Inst(CPY, R(3)), Inst(SET, 2), Inst(CPY, R(4)), Inst(READ, R(3)),
      Inst(LSR, R(4)), Inst(LES, R(3)), CMPNOT, Inst(EQ, R(3)), DEBUG, Inst(LSL, R(1))>>

(* A jump that is taken once. *)
Jump(sr) == Enable(sr) \o <<Inst(READ, PC_REG), CMPNOT, JIF>>

(* Calls the subroutine. *)
Call(sr) ==
    <<Inst(SET, 15), Inst(CPY, R(1)), Inst(SET, 2), Inst(CPY, R(2)),
      Inst(READ, R(1)), Inst(LSL, R(2)), Inst(CPY, R(3))>>
      \o Enable(sr) \o <<Inst(READ, R(3)), CALL>>

(* Stores, loads and uses the stack. *)
Access(sr) ==
    <<Inst(SET, 6), CC2, Inst(ADD, SP_REG), Inst(CPY, R(3))>>
      \o Enable(sr) \o <<Inst(STR, R(3)), PUSH, Inst(LOAD, R(3)), POP>>

(* The same cell in words, in bytes by SR and in bytes by TBM; a lock. *)
Sizes ==
    <<Inst(SET, 6), CC2, Inst(ADD, SP_REG), Inst(CPY, R(3)), Inst(STR, R(3)),
      Inst(SET, 1), Inst(ADD, R(3)), Inst(CPY, R(4)),
      TBM, Inst(STR, R(4)), Inst(LOAD, R(3)), ATOM, TBM,
      Inst(LOAD, R(3)), ATOM,
      Inst(SET, 1), Inst(LSL, R(11)), Inst(CPY, R(5))>>
     
BytesBySr ==
    <<Inst(SET, 8), Inst(CPY, R(1)), Inst(SET, 1), Inst(LSL, R(1)), Inst(CPY, SR_REG),
      Inst(SET, 5), CC2, Inst(ADD, SP_REG), Inst(CPY, R(3)), Inst(READ, R(1)), CC2,
      Inst(STR, R(3)), Inst(LOAD, R(3)), PUSH, POP, Inst(READ, R(3)), ATOM,
      Inst(READ, R(3)), ATOM, Inst(SET, 0), Inst(CPY, SR_REG)>>

(* Interrupted in byte mode with a WR of more than a byte. *)
InByteMode ==
    <<Inst(SET, 6), CC2, Inst(CPY, R(3)), TBM>> \o Enable(4)
      \o <<Inst(READ, R(3)), Inst(CPY, R(4))>> \o Enable(0) \o <<Inst(SET, 1), TBM>>

(* The return of interrupt 1 is redirected while it is not in progress. *)
Stacks == <<Inst(SET, 9), SETINTSTACK + 1, GETINTSTACK + 1, Inst(ADD, R(11)), GETINTSTACK + 1>>

Software(n, sr) ==
    Enable(sr) \o <<Inst(SET, 9), SOFTINT + n, Inst(CPY, R(1))>>

(* A misaligned access with the trap. *)
Misaligned(access) ==
    <<Inst(SET, 4), CC2, Inst(ADD, SP_REG), Inst(CPY, R(5)),
      Inst(SET, 5), CC2, Inst(ADD, SP_REG), Inst(CPY, R(7)),
      Inst(SET, 2), Inst(LSL, R(12)), Inst(CPY, R(6)), Inst(SET, 2), Inst(OR, R(6)),
      Inst(CPY, SR_REG), access>>

MCImages ==
    {ImageOf(body, SaveStatus) :
        body \in {Arithmetic, Sizes, BytesBySr, InByteMode, Stacks,
                  Jump(4), Call(4), Access(4), Enable(Both),
                  Software(0, 2), Software(1, 4)}}
      \cup {ImageOf(Misaligned(access), Realign) : access \in {Inst(LOAD, R(7)), Inst(STR, R(7))}}

(* A program that takes a free lock with interrupt 1 enabled. *)
MCAtomImages ==
    {ImageOf(<<Inst(SET, 6), CC2, Inst(ADD, SP_REG), Inst(CPY, R(3)),
                 Inst(SET, 0), Inst(STR, R(3))>>
               \o Enable(4) \o <<Inst(READ, R(3)), ATOM, Inst(SET, 0), Inst(CPY, SR_REG)>>,
             SaveStatus)}

(* A program that opens interrupt 1 by SOFTINT with interrupt 0 enabled. *)
MCSoftImages == {ImageOf(Software(1, Both), SaveStatus)}

MCRequests == {{}, {1}, {0}}
=============================================================================
