----------------------------- MODULE RtlLockstep -----------------------------
(***************************************************************************)
(* The processor and the simulator with the same program.  The simulator   *)
(* has no timers: it executes an instruction whenever the processor ends   *)
(* one in the same context, and the interrupts that come to the processor  *)
(* from outside are for the processor alone.                               *)
(***************************************************************************)
EXTENDS RtlProps

CONSTANT StackBase   \* the stack of the programs is from here up

(* What the simulator assumes of its RAM. *)
ASSUME RamInHost == RamSize <= HostMod

VARIABLES aloneReg, aloneRam, aloneByteMode, aloneActive, aloneRoutine,
          aloneLevel, alonePhase, aloneOut

aloneVars == <<aloneReg, aloneRam, aloneByteMode, aloneActive, aloneRoutine,
               aloneLevel, alonePhase, aloneOut>>

(* The commands of the basic I/O are at 0 and 1, where the images have the *)
(* magic word: no character is read or written.                            *)
Alone == INSTANCE Simulator
           WITH reg <- aloneReg, ram <- aloneRam, byte_mode <- aloneByteMode,
                active <- aloneActive, routine <- aloneRoutine,
                int_level <- aloneLevel, phase <- alonePhase, out <- aloneOut,
                count_up <- <<>>, freq <- <<>>, Timers <- {<<>>},
                Garbage <- {0}, ExtendedIo <- FALSE, Stdin <- {0},
                TxCmd <- 0, TxData <- 2, RxCmd <- 1, RxData <- 3

(* The byte of the memory of the processor at address a. *)
RamByte(a) == (ram[a \div WordBytes] \div 2^(8 * (a % WordBytes))) % 256

PairInit ==
    /\ Init
    /\ aloneRam = [a \in 0..(RamSize - 1) |-> RamByte(a)]
    /\ Alone!Init

(* The processor ends an instruction that the simulator is to execute too: *)
(* it is not cancelled by an interrupt other than its own.  The simulator  *)
(* stops where the program enables the trap of misaligned accesses, from   *)
(* which the two return to different addresses.                            *)
Completes ==
    /\ Running /\ ~control.ram_not_ready
    /\ ~Bit(aloneReg[SR_REG], SR_TRAP)
    /\ level = aloneLevel.level
    /\ interrupt_ctrl!new_int => executed = SOFTINT + interrupt_ctrl!target_level

PairNext ==
    /\ Next
    /\ \/ Completes /\ alonePhase = "run_inst" /\ Alone!RunInst
       \/ alonePhase = "io" /\ Alone!Io
       \/ alonePhase = "check_int" /\ Alone!CheckInt
       \/ /\ alonePhase = "run_inst" => ~Completes
          /\ alonePhase \notin {"io", "check_int"}
          /\ UNCHANGED aloneVars

pairVars == <<vars, aloneVars>>

(* The clock does not stop.  A step is always possible, because the inputs *)
(* may change at any edge, so that this is WF_pairVars(PairNext); TLC      *)
(* checks it faster than it does the general form.                         *)
PairSpec == PairInit /\ [][PairNext]_pairVars /\ []<><<TRUE>>_pairVars

(* rtl/README.md:5: "if some code work with the simulator, it will work    *)
(* with the processor".  After each instruction of the program the two     *)
(* have the same registers, byte mode, and memory below the stack,         *)
(* whatever interrupts came, at whatever clock, and however often the      *)
(* processor was held.  The return address that CALL pushes is not the     *)
(* same, so the stack is compared where it is popped; SETINT clears WR.    *)
(* Two more instructions of the processor do not do as the simulator's     *)
(* and are in no program of the run: a SOFTINT that is not taken clears WR *)
(* too (no unit gives a content, reflet_cpu.v:170), and a SETINTSTACK      *)
(* whose own interrupt is taken at its end overwrites the address that was *)
(* saved (reflet_interrupt.v:99).                                          *)
MatchesSimulator ==
    alonePhase = "io" =>
        /\ level = aloneLevel.level
        /\ byte_mode = aloneByteMode
        /\ \A r \in 0..15 :
             (r = WR_REG => \A n \in Ints : executed # SETINT + n)
                => registers[r] = aloneReg[r]
        /\ \A a \in 0..(StackBase - 1) : RamByte(a) = aloneRam[a]

(* The instructions that change registers only. *)
RegisterOnly(i) ==
    \/ Opperand(i) \in {READ, CPY, SET, ADD, AND, OR, XOR, NOT, LSL, LSR, EQ, LES}
    \/ i \in {JIF, CC2, CMPNOT, DEBUG}

(* The instructions that access the memory, where the two machines do the  *)
(* same: in byte mode the processor pushes and pops a byte; CALL and RET   *)
(* keep different addresses, and rtl_atom is about ATOM.                   *)
AccessesAlike(i) ==
    \/ Opperand(i) \in {STR, LOAD}
    \/ i \in {PUSH, POP} /\ ~(level = LEVEL_NORMAL /\ byte_mode)

Accessed == AccessAddr(executed)

(* An access that both make: no larger than a word and aligned, or the     *)
(* processor loses bytes; in the RAM, or the simulator ends; and of a size *)
(* that is given by the eight bits of SR that the processor reads.         *)
AccessFits ==
    /\ SR < 2^16 /\ AccessSize <= WordBytes
    /\ Accessed % AccessSize = 0 /\ Accessed + AccessSize <= RamSize
    /\ Stores(executed) => WordIndex(Accessed) # WordIndex(PC)

(* The addresses that the instruction being executed has written. *)
Written ==
    IF Stores(executed) THEN Accessed..(Accessed + AccessSize - 1) ELSE {}

(* The two machines are in the same state, but for the bytes at S. *)
AgreeBut(S) ==
    /\ aloneReg = registers /\ aloneByteMode = byte_mode /\ aloneLevel.level = level
    /\ \A a \in (0..(RamSize - 1)) \ S : aloneRam[a] = RamByte(a)

Agree == AgreeBut({})

(* From the same state, the two machines carry out an instruction on       *)
(* registers or an access alike, and end in the same state.  The processor *)
(* has written before the end: its store is not compared before the        *)
(* simulator's.  Left out are shifts by 64 or more, undefined in C, a      *)
(* store in the word of its own instruction, and the last address of a     *)
(* word, after which only the processor's PC wraps.                        *)
InstructionsAgree ==
    [][ /\ Completes /\ alonePhase = "run_inst" /\ ~interrupt_ctrl!new_int
        /\ PC < RamSize /\ PC + 1 < WordMod
        /\ \/ RegisterOnly(executed) /\ (Opperand(executed) \in {LSL, LSR} => other_register < 64)
           \/ AccessesAlike(executed) /\ AccessFits
        /\ AgreeBut(Written)
        => Agree' ]_pairVars

(* The program does not use a register right after a GETINT, whose result  *)
(* comes a clock late.                                                     *)
NoneAfterGetInt ==
    control.instruction_ok /\ RegisterOnly(instruction) =>
        \A n \in Ints : executed # GETINT + n

(* A program that the simulator brings to its end comes to its end in the  *)
(* processor too once the requests cease.                                  *)
ProgramEnds == []<>enable /\ <>[](interrupt_request = {}) => <>quit
=============================================================================
