----------------------------- MODULE SharedLock -----------------------------
(***************************************************************************)
(* A program and the routine of interrupt 1 that share the extended I/O of *)
(* the simulator under a lock taken with ATOM.  The program reads a        *)
(* character and prints it; the routine prints a '!' of its own when it    *)
(* finds the lock free.  8-bit words and 96 bytes of RAM; the timers, the  *)
(* characters read and what malloc leaves in the stacks are free.          *)
(***************************************************************************)
EXTENDS SimulatorProps

LockCell == 88
Bang == 33
R(n) == n

LoadConst(cell) == <<Inst(SET, cell), Inst(LOAD, WR_REG)>>

Pad(bytes, n) == bytes \o [i \in 1..(n - Len(bytes)) |-> QUIT]

(* Goes to the address in a cell if the lock in R8 was not free. *)
TryLock(cell) == <<Inst(READ, R(8)), ATOM, CMPNOT>> \o LoadConst(cell) \o <<JIF>>
Release == <<Inst(SET, 0), Inst(STR, R(8))>>

(* From 4: jump to 16.  From 8: the addresses that the program loads. *)
Table == <<LockCell, 90, 60, 49, 78, Bang, 0, 0>>

Setup ==
    LoadConst(10) \o <<SETINT + 1>> \o LoadConst(9) \o <<Inst(CPY, SP_REG)>>
        \o LoadConst(8) \o <<Inst(CPY, R(8)), Inst(SET, 0), Inst(STR, R(8)),
                              Inst(SET, 4), Inst(CPY, SR_REG)>>

ReadChar ==
    <<Inst(SET, 2), Inst(CPY, R(3)), Inst(STR, R(3)),
      Inst(SET, 1), Inst(LOAD, WR_REG), Inst(CPY, R(5))>>
PrintChar ==
    <<Inst(SET, 0), Inst(CPY, R(6)), Inst(READ, R(5)), Inst(STR, R(6)),
      Inst(SET, 1), Inst(STR, R(3))>>

MainProgram == Setup \o TryLock(11) \o ReadChar \o PrintChar \o Release

PrintBang ==
    LoadConst(13) \o <<Inst(STR, R(6)), Inst(SET, 2), Inst(CPY, R(2)), Inst(SET, 1),
                       Inst(STR, R(2))>>

RoutineOf1 ==
    <<PUSH, Inst(READ, SR_REG), PUSH>> \o TryLock(12) \o PrintBang \o Release
        \o <<POP, Inst(CPY, SR_REG), POP, RETINT>>

LockRamSize == 96

Program ==
    Pad(Pad(<<65, 83, 82, 77, Inst(SET, 4), Inst(ADD, WR_REG), Inst(ADD, WR_REG),
              Inst(CPY, PC_REG)>> \o Table \o MainProgram, 60) \o RoutineOf1, LockRamSize)

Image == [a \in 0..(LockRamSize - 1) |-> Program[a + 1]]

ASSUME LockMachine ==
    WordBytes = 1 /\ RamSize = LockRamSize /\ Images = {Image} /\ ExtendedIo

-----------------------------------------------------------------------------
(* From the instruction after the jump of TryLock to the store of Release. *)
ProgramSection ==
    LET start == 16 + Len(Setup) + Len(TryLock(11))
    IN  start..(start + Len(ReadChar) + Len(PrintChar) + 1)

RoutineSection ==
    LET start == 60 + 3 + Len(TryLock(12)) IN start..(start + Len(PrintBang) + 1)

ProgramPC == IF int_level.level = LEVEL_NORMAL THEN PC ELSE int_level.routine_stack[1]

AtFetch == phase \in {"check_int", "run_inst"}

ProgramInside == AtFetch /\ ProgramPC \in ProgramSection
RoutineInside == AtFetch /\ int_level.level = 1 /\ PC \in RoutineSection

(* ATOM makes a lock: wherever the timer interrupts the program, the       *)
(* program and the routine are never both inside of their critical         *)
(* sections, and whoever is inside holds the lock.                         *)
MutualExclusion ==
    /\ ~(ProgramInside /\ RoutineInside)
    /\ (ProgramInside \/ RoutineInside) => ram[LockCell] = 1

(* What the program prints is the character it has read: the routine never *)
(* uses the cells of the I/O between the store of the character and the    *)
(* store of the command.                                                   *)
PrintsWhatItRead ==
    [][ phase = "io" /\ out' # <<>> =>
          out' = <<Character(IF int_level.level = 1 THEN Bang ELSE reg[R(5)])>> ]_vars

(* The lock is never lost: the program always gets to its end.             *)
LockingEnds == <>(phase = "returned" /\ ram[LockCell] = 0)
=============================================================================
