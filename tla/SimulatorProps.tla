--------------------------- MODULE SimulatorProps ---------------------------
(***************************************************************************)
(* What a program may rely on in the simulator, whatever its configuration *)
(* and its RAM.                                                            *)
(***************************************************************************)
EXTENDS Simulator

(* Every variable of the simulator stays in its range: the registers in    *)
(* what a word_t holds, the RAM in bytes, the level in the five levels,    *)
(* and the counter of an enabled timer below its period.                   *)
TypeOK ==
    /\ reg \in [0..15 -> Host]
    /\ ram \in [Addresses -> Byte]
    /\ byte_mode \in BOOLEAN /\ active \in BOOLEAN
    /\ routine \in [Ints -> Host]
    /\ freq \in Timers /\ DOMAIN count_up = DOMAIN freq
    /\ \A i \in DOMAIN freq : count_up[i] \in Nat /\ (count_up[i] = 0 \/ count_up[i] < freq[i])
    /\ int_level.level \in 0..LEVEL_NORMAL
    /\ int_level.level_stack \in [Ints -> Host]
    /\ int_level.routine_stack \in [Ints -> Host]
    /\ phase \in {"check_int", "run_inst", "io", "RET_MEMORY", "returned"}
    /\ out \in Seq(Message)

Active == Open(int_level.level_stack, int_level.level)

(* Following level_stack from the current level meets strictly lower       *)
(* priorities down to LEVEL_NORMAL: no RETINT, however the contexts were   *)
(* opened, reads an entry of level_stack that malloc left there, leads to  *)
(* a level already open, or leaves the program in an interrupt for ever.   *)
NestInv == WellNested(int_level.level_stack, int_level.level)

(* The simulator implements the interrupt system of PriorityNest: whatever *)
(* the timers, the software interrupts and the alignment trap do, contexts *)
(* open by priority, close innermost first, and close to the address saved *)
(* for them unless the program redirected it with SETINTSTACK.             *)
Nest == INSTANCE PriorityNest
          WITH pc <- PC, active <- Active, resume <- int_level.routine_stack

NestSpec == Nest!NestSpec

(* reflet_run checks the PC at the end of a turn only.  The one way to     *)
(* fetch a byte that is not in RAM is an interrupt taken by check_int      *)
(* whose routine is not in RAM.                                            *)
FetchChecked ==
    phase = "run_inst" /\ PC >= RamSize =>
        int_level.level \in Ints /\ PC = routine[int_level.level]

(* The next step of run_inst executes an instruction of operation op. *)
Executes(op) ==
    /\ phase = "run_inst" /\ PC \in Addresses
    /\ op = IF ram[PC] < JIF THEN Opperand(ram[PC]) ELSE ram[PC]

Argument == reg[RegOf(ram[PC])]

(* A store in memory, of any size that the behaviour bits, the byte mode   *)
(* and the level give it, reduced or larger than a word, changes no byte   *)
(* outside of the access, and a load of the same size gives back as much   *)
(* of the value as the size holds, whether or not the access was trapped.  *)
(* The shifts that C leaves undefined, of the size or of the value, do not *)
(* change that, whichever of their outcomes the build has.                 *)
StoredIsLoaded ==
    [][ Executes(STR) /\ phase' = "io" =>
          \A addr \in Addresses : addr = Argument =>
             \E n \in byteExchanged(FALSE) :
               /\ addr + n <= RamSize
               /\ loadWordRAM(addr, n)' = {IF 8 * n < HostBits THEN WR % 2^(8 * n) ELSE WR}
               /\ \A a \in Addresses \ (addr..(addr + n - 1)) : ram'[a] = ram[a] ]_vars

(* POP gives back the word of the PUSH before it, and RET goes to the      *)
(* instruction after the CALL before it, in every mode of the processor:   *)
(* each finds the stack pointer a word above the word it reads.  This is   *)
(* what the pairs do together; README.md:57 says that CALL pushes its own  *)
(* address and RET adds one, and README.md:59 exchanges POP and PUSH,      *)
(* which the simulator does not.                                           *)
PushedIsPopped ==
    [][ \A sp \in Addresses :
          sp = SP /\ phase' = "io" =>
            /\ Executes(PUSH) => Below(SP') = sp /\ loadWordRAM(sp, WordBytes)' = {WR % WordMod}
            /\ Executes(CALL) => Below(SP') = sp /\ loadWordRAM(sp, WordBytes)' = {NextPC} ]_vars

-----------------------------------------------------------------------------
(* What the documents say of every program; runs show where the code does  *)
(* something else.                                                         *)

(* README.md:93, of the trap of a misaligned access: "when exiting this    *)
(* interruption, the program will jump back to the instruction that raised *)
(* the interruption".                                                      *)
TrapResumesAtAccess ==
    [][ /\ \E op \in {STR, LOAD, ATOM, PUSH, POP, CALL, RET} : Executes(op)
        /\ int_level'.level < int_level.level
        => int_level'.routine_stack[0] = PC ]_vars

(* README.md:103, of an interrupt that is taken: "The address of the       *)
(* interruption routine will be then put in the program counter".          *)
InterruptGoesToRoutine ==
    [][ int_level'.level < int_level.level => PC' = routine[int_level'.level] ]_vars
=============================================================================
