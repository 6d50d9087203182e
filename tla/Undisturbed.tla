---------------------------- MODULE Undisturbed ----------------------------
(***************************************************************************)
(* Two simulators with the same program: one with timers, and one alone,   *)
(* without any, that executes an instruction whenever the first executes   *)
(* one outside of every interrupt.  Interrupt routines that restore what   *)
(* they use must leave the program as if it were alone.                    *)
(***************************************************************************)
EXTENDS SimulatorProps

CONSTANT RoutineRegs    \* registers that the interrupt routines keep to themselves

VARIABLES aloneReg, aloneRam, aloneByteMode, aloneActive, aloneRoutine,
          aloneLevel, alonePhase, aloneOut

aloneVars == <<aloneReg, aloneRam, aloneByteMode, aloneActive, aloneRoutine,
               aloneLevel, alonePhase, aloneOut>>

Alone == INSTANCE Simulator
           WITH reg <- aloneReg, ram <- aloneRam, byte_mode <- aloneByteMode,
                active <- aloneActive, routine <- aloneRoutine,
                int_level <- aloneLevel, phase <- alonePhase, out <- aloneOut,
                count_up <- <<>>, freq <- <<>>, Timers <- {<<>>}

PairInit ==
    /\ Init
    /\ aloneRam = ram /\ aloneLevel = int_level
    /\ Alone!Init

InProgram == int_level.level = LEVEL_NORMAL

PairNext ==
    \/ CheckInt /\ IF alonePhase = "check_int" THEN Alone!CheckInt ELSE UNCHANGED aloneVars
    \/ RunInst /\ IF InProgram THEN Alone!RunInst ELSE UNCHANGED aloneVars
    \/ Io /\ IF alonePhase = "io" THEN Alone!Io ELSE UNCHANGED aloneVars
    \/ Ended /\ UNCHANGED aloneVars

PairSpec == PairInit /\ [][PairNext]_<<vars, aloneVars>> /\ WF_<<vars, aloneVars>>(PairNext)

(* Whenever an instruction of the program itself is executed, the program  *)
(* is where it would be without interrupts: the same registers, the PC     *)
(* with them, the same byte mode, and the same RAM below the stack pointer.*)
ProgramUndisturbed ==
    phase = "run_inst" /\ InProgram =>
        /\ alonePhase = "run_inst"
        /\ byte_mode = aloneByteMode
        /\ \A r \in 0..15 : r \notin RoutineRegs => reg[r] = aloneReg[r]
        /\ \A a \in Addresses : a < SP => ram[a] = aloneRam[a]

(* The two write the same to stdout, step by step: each character and each *)
(* line of DEBUG that the program writes alone is written with timers too, *)
(* and nothing else is, but for the lines that the instructions of the     *)
(* routines themselves ask for.                                            *)
SameOutput ==
    [][ ~(phase = "run_inst" /\ ~InProgram) => out' = aloneOut' ]_<<vars, aloneVars>>

(* A program that ends when it is alone ends with timers too, if an        *)
(* interrupt routine is shorter than the period of its timer: the timers   *)
(* cannot keep the program from its next instruction for ever.             *)
ProgramEnds == <>(phase = "returned")
=============================================================================
