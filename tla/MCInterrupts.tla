---------------------------- MODULE MCInterrupts ----------------------------
(***************************************************************************)
(* Programs for the interrupt system on a machine of 8-bit words with 32   *)
(* bytes of RAM.  The program sets the four routines and enables the four  *)
(* interrupts, then runs two instructions that the model chooses and       *)
(* quits; the routine of one interrupt starts with an instruction that the *)
(* model chooses too.                                                      *)
(***************************************************************************)
EXTENDS SimulatorProps, SequencesExt

Magic == <<65, 83, 82, 77>>     \* "ASRM"

(* The routine of interrupt i is at RoutineAt(i): two bytes, [x, RETINT].  *)
RoutineAt(i) == 24 + 2 * i

SetRoutine(i) == <<Inst(SET, RoutineAt(i) \div 2), Inst(ADD, WR_REG), SETINT + i>>

Prologue ==
    SetRoutine(0) \o SetRoutine(1) \o SetRoutine(2) \o SetRoutine(3)
        \o <<Inst(SET, 15), Inst(ADD, WR_REG), Inst(CPY, SR_REG)>>   \* SR = 0x1E

Nop == Inst(READ, WR_REG)

(* The body starts with WR = 0x1E, the address of the routine of 3: it can *)
(* redirect a context there, or double it and set a routine outside of the *)
(* RAM; after SET 6 it can disable two of the interrupts.                  *)
BodyInsts ==
    {Nop, SOFTINT, SOFTINT + 2, SOFTINT + 3, SETINTSTACK + 2, Inst(SET, 6),
     Inst(CPY, SR_REG), RETINT, Inst(ADD, WR_REG), SETINT + 2}

RoutineInsts == {SOFTINT, SOFTINT + 2, SETINTSTACK + 1, GETINTSTACK + 2, TBM}

Routines(i, x) ==
    FlattenSeq([j \in 1..4 |-> IF j = i + 1 THEN <<x, RETINT>> ELSE <<Nop, RETINT>>])

ImageOf(bytes) == [a \in 0..31 |-> IF a < Len(bytes) THEN bytes[a + 1] ELSE 0]

MCImages ==
    {ImageOf(Magic \o Prologue \o <<b, c, QUIT, 0, 0>> \o Routines(i, x)) :
        b \in BodyInsts, c \in BodyInsts, i \in Ints, x \in RoutineInsts}

(* No timer; one that fires all the time; pairs and triples that nest in   *)
(* either order or expire together.                                        *)
MCTimers ==
    {1 :> 1, 0 :> 5 @@ 3 :> 2, 0 :> 7 @@ 1 :> 5 @@ 2 :> 3, 1 :> 3 @@ 2 :> 3 @@ 3 :> 3}
=============================================================================
