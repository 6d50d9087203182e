------------------------------- MODULE RtlCpu -------------------------------
(***************************************************************************)
(* The processor (rtl/reflet_cpu.v): its registers, and the ALU, the       *)
(* memory interface and the interrupt controller around them, with the     *)
(* memory of the test benches (rtl/simu/reflet_ram.v) on its bus.  A step  *)
(* is a rising edge of the clock: every register takes a value computed    *)
(* from what all of them held before it.                                   *)
(***************************************************************************)
EXTENDS RtlAlu, Contexts

CONSTANTS
    RamSize,     \* bytes of memory, a multiple of WordBytes
    Images,      \* the contents the memory may have at reset
    Requests,    \* the sets of interrupt lines that may be up together
    PowerUp      \* what a register that the reset does not set may hold

ASSUME RtlAssumption ==
    /\ WordBytes \in {1, 2, 4, 8} /\ WordBits <= HostBits
    /\ RamSize \in Nat
    /\ Images \subseteq [0..(RamSize - 1) -> 0..255]
    /\ Requests \subseteq SUBSET Ints
    /\ PowerUp \subseteq 0..(WordMod - 1)

ASSUME WholeWords == RamSize % WordBytes = 0

VARIABLES
    enable, interrupt_request,                   \* inputs of the processor
    registers, quit,
    executed,        \* instruction_cpu, instruction_alu and instruction_int
    content,         \* content_addr_r, content_alu_r and content_int_r, ORed
    ram, data_out_array,                         \* reflet_ram
    instruction, addr, byte_mode, control, inst_mem_r,
    read_ready_latched, reader, writer,          \* reflet_addr
    int_masked_latched, level, level_memory, addr_memory,
    routines, getint_out                         \* reflet_interrupt

inputVars == <<enable, interrupt_request>>
cpuVars == <<registers, quit, executed>>
memoryVars == <<instruction, addr, byte_mode, control, inst_mem_r,
                read_ready_latched, reader, writer>>
interruptVars == <<int_masked_latched, level, level_memory, addr_memory,
                   routines, getint_out>>
vars == <<inputVars, cpuVars, content, ram, data_out_array, memoryVars, interruptVars>>

WR == registers[WR_REG]
SR == registers[SR_REG]
PC == registers[PC_REG]
SP == registers[SP_REG]
other_register == registers[RegOf(instruction)]

SR_TRAP == 5

RamWords == RamSize \div WordBytes

-----------------------------------------------------------------------------
(* The units and the wires between them. *)

(* The address bus counts bytes, the memory words. *)
data_in == IF addr \div WordBytes \in DOMAIN ram THEN data_out_array ELSE 0

ram_interface ==
    INSTANCE RtlAddr
      WITH workingRegister <- WR, programCounter <- PC, stackPointer <- SP,
           otherRegister <- other_register, statusRegister <- SR,
           in_interrupt_context <- level # LEVEL_NORMAL

(* The alignment error is a request of interrupt 0. *)
used_int ==
    interrupt_request
      \cup (IF Bit(SR, SR_TRAP) /\ ram_interface!alignment_error THEN {0} ELSE {})

interrupt_ctrl ==
    INSTANCE RtlInterrupt
      WITH interrupt_request <- used_int, instruction <- executed,
           working_register <- WR, program_counter <- PC,
           int_mask <- {i \in Ints : Bit(SR, i + 1)},
           cpu_update <- ~control.ram_not_ready

(* The register to write. *)
index ==
    BitOr(alu_out_reg(executed, SR),
          BitOr(ram_interface!addr_out_reg, interrupt_ctrl!out_reg))

-----------------------------------------------------------------------------
(* The registers. *)

NextPC == (PC + 1) % WordMod

SPAfter ==
    IF executed \in {PUSH, CALL} THEN (SP + WordBytes) % WordMod
    ELSE IF executed \in {POP, RET} THEN (SP - WordBytes) % WordMod
    ELSE SP

(* The instruction writes its register, moves the stack pointer, and goes  *)
(* on to the next unless it wrote the PC.                                  *)
Execute ==
    /\ quit' = (executed = QUIT)
    /\ registers' =
         LET moved == [registers EXCEPT ![SP_REG] = SPAfter,
                                        ![PC_REG] = IF index = PC_REG THEN PC ELSE NextPC]
         IN  IF executed \in {QUIT, PUSH} THEN moved
             ELSE [moved EXCEPT ![index] = content]

(* An interrupt that is taken replaces the end of the instruction. *)
TakeInterrupt ==
    /\ registers' = [registers EXCEPT ![PC_REG] = interrupt_ctrl!out_routine]
    /\ UNCHANGED quit

UpdateRegisters ==
    \/ control.ram_not_ready /\ UNCHANGED <<registers, quit>>
    \/ ~control.ram_not_ready /\ interrupt_ctrl!new_int /\ TakeInterrupt
    \/ ~control.ram_not_ready /\ ~interrupt_ctrl!new_int /\ Execute

(* What the units give, kept for a clock whether or not the processor is   *)
(* enabled.                                                                *)
KeepContent ==
    \E address \in interrupt_ctrl!addr_memory_out :
      content' =
        BitOr(BitOr(alu_out(executed, WR, other_register, SR), ram_interface!addr_out),
              BitOr(getint_out, address))

(* reflet_ram: a word is written and one is read at each edge, the word    *)
(* read being what was there before.                                       *)
ClockRam ==
    LET a == addr \div WordBytes
    IN  IF a \in DOMAIN ram
        THEN /\ ram' = IF writer.write_ready THEN [ram EXCEPT ![a] = writer.data_out_ram]
                       ELSE ram
             /\ data_out_array' = ram[a]
        ELSE data_out_array' \in PowerUp /\ UNCHANGED ram

-----------------------------------------------------------------------------
(* The clock. *)

Inputs == enable \in BOOLEAN /\ interrupt_request \in Requests

NewInputs == enable' \in BOOLEAN /\ interrupt_request' \in Requests

(* Word w of the bytes of an image. *)
WordOf(image, w) ==
    SumFunction([k \in 0..(WordBytes - 1) |-> image[w * WordBytes + k] * 2^(8 * k)])

Init ==
    /\ Inputs
    /\ registers = [r \in 0..15 |-> IF r = PC_REG THEN 4 ELSE 0]
    /\ quit = FALSE
    /\ executed \in {junk % 256 : junk \in PowerUp}
    /\ content = 0
    /\ \E image \in Images :
         ram = [w \in 0..(RamWords - 1) |-> WordOf(image, w)]
    /\ data_out_array \in PowerUp
    /\ ram_interface!Reset
    /\ interrupt_ctrl!Reset

Running == enable /\ ~quit

Tick ==
    /\ Running
    /\ UpdateRegisters
    /\ executed' = instruction
    /\ ram_interface!Clock
    /\ interrupt_ctrl!Clock

(* An edge while the processor is disabled, or after QUIT. *)
Held ==
    /\ ~Running
    /\ UNCHANGED <<cpuVars, memoryVars, interruptVars>>

Next ==
    /\ Tick \/ Held
    /\ KeepContent
    /\ ClockRam
    /\ NewInputs

Spec == Init /\ [][Next]_vars
=============================================================================
