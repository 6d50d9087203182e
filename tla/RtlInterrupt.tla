---------------------------- MODULE RtlInterrupt ----------------------------
(***************************************************************************)
(* The interrupt controller of the processor (rtl/reflet_interrupt.v), a   *)
(* step per rising edge of the clock.  Its inputs are variables, which the *)
(* module that instantiates it connects; those of an enabled controller    *)
(* change freely in Env.                                                   *)
(***************************************************************************)
EXTENDS Opcodes, Contexts

CONSTANTS
    WordMod,     \* 2^wordsize
    PowerUp      \* what a register that the reset does not set may hold

VARIABLES
    interrupt_request,   \* input: the interrupts whose line is up
    instruction,         \* input: the instruction being executed
    working_register,    \* input
    program_counter,     \* input
    int_mask,            \* input: the interrupts that SR enables
    cpu_update,          \* input: the CPU ends an instruction in this clock
    int_masked_latched,  \* the requests seen since the last update
    level,               \* 4, or the interrupt whose context is the current one
    level_memory,        \* the level each context will close to
    addr_memory,         \* where the program will go on
    routines,
    getint_out           \* the routine read for GETINT, a clock later

inputVars == <<interrupt_request, instruction, working_register, program_counter,
               int_mask, cpu_update>>
nestVars == <<level, level_memory, addr_memory>>
registerVars == <<int_masked_latched, nestVars, routines, getint_out>>

Word == 0..(WordMod - 1)

(* A register of three bits. *)
Levels == 0..7

softint_request == {n \in Ints : instruction = SOFTINT + n}

int_masked == (interrupt_request \cup softint_request) \cap int_mask

(* Mutant: a request must be there when the CPU ends an instruction. *)
LatchAtUpdate == int_masked_latched' = int_masked

(* A request that comes in the middle of an instruction stays until the    *)
(* CPU has had the occasion to take it.                                    *)
Latch ==
    int_masked_latched' =
        int_masked \cup (IF cpu_update THEN {} ELSE int_masked_latched)

target_level ==
    IF 0 \in int_masked_latched THEN 0
    ELSE IF 1 \in int_masked_latched THEN 1
    ELSE IF 2 \in int_masked_latched THEN 2
    ELSE IF 3 \in int_masked_latched THEN 3
    ELSE LEVEL_NORMAL

(* The output "interrupt". *)
new_int == target_level < level

-----------------------------------------------------------------------------
(* The level and the two memories. *)

(* Mutant: the instruction that the interrupt cancels is skipped. *)
EnterAfter ==
    /\ cpu_update /\ new_int
    /\ level' = target_level
    /\ addr_memory' = [addr_memory EXCEPT ![target_level] = (program_counter + 1) % WordMod]
    /\ level_memory' = [level_memory EXCEPT ![target_level] = level]

(* A SOFTINT is over once its context is open; any other instruction is    *)
(* cancelled and will be executed again.                                   *)
Enter ==
    /\ cpu_update /\ new_int
    /\ level' = target_level
    /\ addr_memory' =
         [addr_memory EXCEPT ![target_level] =
             IF softint_request # {} THEN (program_counter + 1) % WordMod
                                     ELSE program_counter]
    /\ level_memory' = [level_memory EXCEPT ![target_level] = level]

Returning == cpu_update /\ ~new_int /\ instruction = RETINT

(* Mutant: every context closes to the program. *)
ReturnToNormal ==
    /\ Returning
    /\ level' = LEVEL_NORMAL
    /\ UNCHANGED <<level_memory, addr_memory>>

(* Outside of an interrupt RETINT reads an entry that level_memory has not. *)
Return ==
    /\ Returning
    /\ level' \in IF level \in Ints THEN {level_memory[level]} ELSE Levels
    /\ UNCHANGED <<level_memory, addr_memory>>

(* SETINTSTACK writes at every clock at which it is the instruction, even  *)
(* once the context it writes to has been opened again.                    *)
Redirect(n) ==
    /\ ~(cpu_update /\ new_int)
    /\ instruction = SETINTSTACK + n
    /\ addr_memory' = [addr_memory EXCEPT ![n] = working_register]
    /\ UNCHANGED <<level, level_memory>>

Stay ==
    /\ ~(cpu_update /\ new_int)
    /\ ~(cpu_update /\ instruction = RETINT)
    /\ \A n \in Ints : instruction # SETINTSTACK + n
    /\ UNCHANGED nestVars

-----------------------------------------------------------------------------
(* The routines. *)

SetRoutine(n) ==
    /\ cpu_update /\ instruction = SETINT + n
    /\ routines' = [routines EXCEPT ![n] = working_register]
    /\ getint_out' = 0

ReadRoutine ==
    /\ ~(cpu_update /\ \E n \in Ints : instruction = SETINT + n)
    /\ \/ \E n \in Ints : instruction = GETINT + n /\ getint_out' = routines[n]
       \/ (\A n \in Ints : instruction # GETINT + n) /\ getint_out' = 0
    /\ UNCHANGED routines

(* An edge of the clock while the controller is enabled. *)
Clock ==
    /\ Latch
    /\ Enter \/ Return \/ Stay \/ \E n \in Ints : Redirect(n)
    /\ ReadRoutine \/ \E n \in Ints : SetRoutine(n)

-----------------------------------------------------------------------------
(* The outputs to the CPU. *)

in_interrupt_context == level # LEVEL_NORMAL

out_routine == routines[target_level]

(* Outside of an interrupt this reads an entry that addr_memory has not.   *)
previous_addr == IF level \in Ints THEN {addr_memory[level]} ELSE PowerUp

(* The address of a context that RETINT returns to or GETINTSTACK reads,   *)
(* as the set of its possible values; the output "out" is one of them or   *)
(* getint_out.                                                             *)
addr_memory_out ==
    IF instruction = RETINT THEN previous_addr
    ELSE IF instruction \in {GETINTSTACK + n : n \in Ints}
    THEN {addr_memory[instruction - GETINTSTACK]}
    ELSE IF instruction \in {SETINTSTACK + n : n \in Ints} THEN {working_register}
    ELSE {0}

out_reg == IF instruction = RETINT THEN PC_REG ELSE 0

-----------------------------------------------------------------------------
(* The controller by itself.  After reset only these three registers have  *)
(* a value that the source gives.                                          *)

Reset ==
    /\ int_masked_latched = {}
    /\ level = LEVEL_NORMAL
    /\ getint_out = 0
    /\ level_memory \in [Ints -> {junk % 8 : junk \in PowerUp}]
    /\ addr_memory \in [Ints -> PowerUp]
    /\ routines \in [Ints -> PowerUp]

InputsOK ==
    /\ interrupt_request \subseteq Ints
    /\ instruction \in 0..255
    /\ working_register \in Word
    /\ program_counter \in Word
    /\ int_mask \subseteq Ints
    /\ cpu_update \in BOOLEAN

Init == Reset /\ InputsOK

(* What the controller may count on: a program returns only from inside of *)
(* an interrupt, and the CPU then goes on at the address it was given.     *)
Env ==
    /\ InputsOK'
    /\ Returning => level \in Ints /\ program_counter' = addr_memory[level]

Next == Clock /\ Env

vars == <<inputVars, registerVars>>

Spec == Init /\ [][Next]_vars

-----------------------------------------------------------------------------

TypeOK ==
    /\ InputsOK
    /\ int_masked_latched \subseteq Ints
    /\ level \in 0..LEVEL_NORMAL
    /\ level_memory \in [Ints -> Levels]
    /\ addr_memory \in [Ints -> Word]
    /\ routines \in [Ints -> Word]
    /\ getint_out \in Word

Active == Open(level_memory, level)

(* Following level_memory from the current level meets strictly lower      *)
(* priorities down to the program: no RETINT leads to a context that is    *)
(* already open or to an entry that nothing has written since the reset.   *)
NestInv == WellNested(level_memory, level)

(* The controller implements the interrupt system of PriorityNest, as the  *)
(* simulator does.                                                         *)
Nest == INSTANCE PriorityNest
          WITH pc <- program_counter,
               active <- Active,
               resume <- addr_memory

NestSpec == Nest!NestSpec
=============================================================================
