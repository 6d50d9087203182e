------------------------------- MODULE RtlAddr -------------------------------
(***************************************************************************)
(* The memory interface of the processor (rtl/reflet_addr.v), a step per   *)
(* rising edge of the clock.  It fetches an instruction, makes its access  *)
(* if it has one, and lowers ram_not_ready for the one clock in which the  *)
(* CPU writes its registers.  Memory is read and written a word at a time; *)
(* the reader and the writer pick the bytes of an access out of a word.    *)
(***************************************************************************)
EXTENDS Words, Opcodes

CONSTANTS
    WordBytes,   \* wordsize / 8
    PowerUp      \* what a register that the reset does not set may hold

VARIABLES
    workingRegister,       \* input
    programCounter,        \* input
    stackPointer,          \* input
    otherRegister,         \* input: the register that the instruction names
    statusRegister,        \* input
    in_interrupt_context,  \* input
    data_in,               \* input: what the memory gives for addr
    instruction,           \* the last instruction fetched
    addr,                  \* the address on the bus
    byte_mode,
    control,               \* the registers of the sequencer
    inst_mem_r,            \* control.inst_mem, a clock later
    read_ready_latched,    \* a read has finished since the last fetch
    reader,                \* the registers of reflet_mem_reader
    writer                 \* the registers of reflet_mem_writer

addrVars == <<instruction, addr, byte_mode, control, inst_mem_r, read_ready_latched,
              reader, writer>>

WordBits == 8 * WordBytes
WordMod == 2^WordBits

-----------------------------------------------------------------------------
(* What an instruction does to memory. *)

StackInst == instruction \in {PUSH, POP, CALL, RET}

inst_read == Opperand(instruction) = LOAD \/ instruction \in {POP, RET, ATOM}
inst_write == Opperand(instruction) = STR \/ instruction \in {PUSH, CALL, ATOM}

(* The address to put on the bus: that of the access while there is an     *)
(* instruction, and otherwise that of the next instruction.  The CPU moves *)
(* the stack pointer when the access is over.                              *)
cpu_addr ==
    IF ~control.instruction_ok THEN programCounter
    ELSE IF instruction \in {POP, RET} THEN (stackPointer - WordBytes) % WordMod
    ELSE IF instruction \in {PUSH, CALL} THEN stackPointer
    ELSE IF Opperand(instruction) \in {STR, LOAD} THEN otherRegister
    ELSE IF instruction = ATOM THEN workingRegister
    ELSE 0

(* The base 2 logarithm of WordBytes, and the width of size_used. *)
size_used_max == CHOOSE k \in 0..3 : 2^k = WordBytes
SizeMod == 2^(size_used_max + 1)

reduced_behaviour_bits == IF WordBytes = 1 THEN 0 ELSE (statusRegister \div 2^8) % 2^8

size_normal_access ==
    IF reduced_behaviour_bits = 0 THEN size_used_max
    ELSE (reduced_behaviour_bits - 1) % SizeMod

(* Mutant: byte mode also holds inside of an interrupt. *)
size_used_always ==
    IF ~control.instruction_ok THEN 0
    ELSE IF byte_mode THEN 0
    ELSE IF StackInst THEN size_used_max
    ELSE size_normal_access

(* The base 2 logarithm of the size of the access: a byte for a fetch. *)
size_used ==
    IF ~control.instruction_ok THEN 0
    ELSE IF ~in_interrupt_context /\ byte_mode THEN 0
    ELSE IF StackInst THEN size_used_max
    ELSE size_normal_access

(* reflet_mem_shift_mask: where an access is in the word that holds its    *)
(* first byte, and the bits it may use there.  An access that reaches      *)
(* beyond the word loses the rest.                                         *)
shift == 8 * (cpu_addr % WordBytes)
mask == {b \in 0..(WordBits - 1) : b >= shift /\ b < shift + 8 * 2^size_used}

alignment_error == addr % 2^size_used # 0 /\ control.inst_mem

data_in_usable ==
    IF instruction = RET THEN (reader.data_in_cpu + 1) % WordMod
    ELSE IF instruction = POP \/ Opperand(instruction) = LOAD THEN reader.data_in_cpu
    ELSE 0

(* What an access of another kind leaves of its register. *)
wr_out ==
    IF instruction \in {PUSH, CALL, TBM} \/ Opperand(instruction) = STR
    THEN workingRegister ELSE 0

atom_out ==
    IF instruction # ATOM THEN 0
    ELSE (statusRegister - (statusRegister % 2)) + (IF reader.data_in_cpu = 0 THEN 1 ELSE 0)

addr_out == data_in_usable + wr_out + atom_out

addr_out_reg ==
    IF instruction \in {RET, CALL} THEN PC_REG
    ELSE IF instruction = ATOM THEN SR_REG
    ELSE WR_REG

data_out_cpu ==
    IF instruction = PUSH \/ Opperand(instruction) = STR THEN workingRegister
    ELSE IF instruction = CALL THEN programCounter
    ELSE IF instruction = ATOM THEN 1
    ELSE 0

-----------------------------------------------------------------------------
(* reflet_mem_reader and reflet_mem_writer: on the rising edge of a        *)
(* request, a word is read a clock later, and written in the same clock.   *)

(* Mutant: the fetch is read a clock later. *)
read_requestLate == control.delay = 3 \/ (control.inst_mem /\ ~inst_mem_r)

read_request == control.delay = 2 \/ (control.inst_mem /\ ~inst_mem_r)

Read ==
    reader' =
      [read_request_r |-> read_request,
       new_request_r |-> read_request /\ ~reader.read_request_r,
       data_in_cpu |-> IF reader.new_request_r
                       THEN ShiftRight(FromBits(Bits(data_in) \cap mask), shift)
                       ELSE reader.data_in_cpu,
       read_ready |-> reader.new_request_r]

(* Mutant: a store does not wait for the word to be read. *)
write_requestEarly == inst_write /\ control.inst_mem /\ control.instruction_ok

write_request == inst_write /\ reader.read_ready /\ control.instruction_ok

data_to_write ==
    FromBits((Bits(data_in) \ mask)
             \cup (Bits(ShiftLeft(data_out_cpu, shift, WordBits)) \cap mask))

Write ==
    LET new_request == write_request /\ ~writer.write_request_r
    IN  writer' = [write_request_r |-> write_request,
                   data_out_ram |-> IF new_request THEN data_to_write
                                    ELSE writer.data_out_ram,
                   write_ready |-> new_request]

-----------------------------------------------------------------------------
(* The sequencer: an instruction is decoded, waits for its access, readies *)
(* the CPU, and the next one is fetched.                                   *)

StartAccess ==
    /\ control.instruction_ok /\ ~control.inst_mem
    /\ inst_read \/ inst_write
    /\ control' = [control EXCEPT !.read_ready_reset = FALSE, !.inst_mem = TRUE]
    /\ UNCHANGED instruction

(* Mutant: a store is not over when it is written. *)
ReadDone == inst_read /\ reader.read_ready

AccessDone == (inst_read /\ reader.read_ready) \/ (inst_write /\ writer.write_ready)

AwaitAccess ==
    /\ control.instruction_ok /\ control.inst_mem
    /\ ~AccessDone
    /\ control' = [control EXCEPT !.read_ready_reset = FALSE]
    /\ UNCHANGED instruction

(* The access is over, or the instruction has none. *)
Finish ==
    /\ control.instruction_ok
    /\ IF control.inst_mem THEN AccessDone ELSE ~(inst_read \/ inst_write)
    /\ control' = [control EXCEPT !.read_ready_reset = FALSE,
                                  !.instruction_ok = FALSE,
                                  !.readying_ram = TRUE]
    /\ UNCHANGED instruction

Update ==
    /\ ~control.instruction_ok /\ control.readying_ram
    /\ control' = [control EXCEPT !.inst_mem = FALSE,
                                  !.readying_ram = FALSE,
                                  !.ram_not_ready = FALSE]
    /\ UNCHANGED instruction

Idle == ~control.instruction_ok /\ ~control.readying_ram

StartFetch ==
    /\ Idle /\ ~control.ram_not_ready
    /\ control' = [control EXCEPT !.inst_mem = FALSE,
                                  !.ram_not_ready = TRUE,
                                  !.delay = 1]
    /\ UNCHANGED instruction

(* Mutant: the counter of the delay is a bit wider. *)
CountLonger ==
    /\ Idle /\ control.ram_not_ready /\ control.delay # 0
    /\ control' = [control EXCEPT !.inst_mem = FALSE,
                                  !.delay = (control.delay + 1) % 8]
    /\ UNCHANGED instruction

CountDelay ==
    /\ Idle /\ control.ram_not_ready /\ control.delay # 0
    /\ control' = [control EXCEPT !.inst_mem = FALSE,
                                  !.delay = (control.delay + 1) % 4]
    /\ UNCHANGED instruction

AwaitFetch ==
    /\ Idle /\ control.ram_not_ready /\ control.delay = 0
    /\ ~read_ready_latched
    /\ control' = [control EXCEPT !.inst_mem = FALSE]
    /\ UNCHANGED instruction

Decode ==
    /\ Idle /\ control.ram_not_ready /\ control.delay = 0
    /\ read_ready_latched
    /\ control' = [control EXCEPT !.inst_mem = FALSE,
                                  !.read_ready_reset = TRUE,
                                  !.instruction_ok = TRUE]
    /\ instruction' = reader.data_in_cpu % 256

Sequence ==
    \/ StartAccess \/ AwaitAccess \/ Finish
    \/ Update \/ StartFetch \/ CountDelay \/ AwaitFetch \/ Decode

LatchReady ==
    read_ready_latched' =
        (~control.read_ready_reset /\ (read_ready_latched \/ reader.read_ready))

(* An edge of the clock while the interface is enabled. *)
Clock ==
    /\ Sequence /\ Read /\ Write /\ LatchReady
    /\ addr' = cpu_addr
    /\ inst_mem_r' = control.inst_mem
    /\ byte_mode' = (byte_mode # (instruction = TBM /\ ~control.ram_not_ready))

(* After reset; the registers that it does not set keep what they have. *)
Reset ==
    /\ byte_mode = FALSE
    /\ control = [instruction_ok |-> FALSE, inst_mem |-> FALSE, readying_ram |-> FALSE,
                  ram_not_ready |-> TRUE, read_ready_reset |-> FALSE, delay |-> 1]
    /\ inst_mem_r = FALSE
    /\ read_ready_latched = FALSE
    /\ instruction \in {junk % 256 : junk \in PowerUp}
    /\ addr \in PowerUp
    /\ \E junk \in PowerUp :
         reader = [read_request_r |-> FALSE, new_request_r |-> FALSE,
                   data_in_cpu |-> junk, read_ready |-> FALSE]
    /\ \E junk \in PowerUp :
         writer = [write_request_r |-> FALSE, data_out_ram |-> junk, write_ready |-> FALSE]
=============================================================================
