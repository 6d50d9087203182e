------------------------------ MODULE RtlProps ------------------------------
(***************************************************************************)
(* What a program and the circuits around it may rely on in the processor. *)
(***************************************************************************)
EXTENDS RtlCpu

Word == 0..(WordMod - 1)
Byte == 0..255

(* Every register of the processor stays in its width, and the level in    *)
(* the five levels.                                                        *)
TypeOK ==
    /\ registers \in [0..15 -> Word]
    /\ quit \in BOOLEAN
    /\ {instruction, executed} \subseteq Byte
    /\ {content, addr, getint_out, data_out_array} \subseteq Word
    /\ {reader.data_in_cpu, writer.data_out_ram} \subseteq Word
    /\ ram \in [0..(RamWords - 1) -> Word]
    /\ control.delay \in 0..3
    /\ int_masked_latched \subseteq Ints
    /\ level \in 0..LEVEL_NORMAL
    /\ level_memory \in [Ints -> 0..7]
    /\ {addr_memory, routines} \subseteq [Ints -> Word]

(* The processor implements the interrupt system of PriorityNest: contexts *)
(* open by priority, close innermost first, and RETINT takes the PC to the *)
(* address that the controller kept, which goes through content a clock    *)
(* later and ORed with what the other units give.                          *)
Nest == INSTANCE PriorityNest
          WITH pc <- PC, active <- Open(level_memory, level), resume <- addr_memory

NestSpec == Nest!NestSpec

(* The memory interface never stops: the sequencer, the reader, the writer *)
(* and the latch between them always come to the next update, whatever the *)
(* instruction and however often enable is lowered, as long as it is       *)
(* raised again.                                                           *)
Responds == []<>enable => []<>(~control.ram_not_ready \/ quit)

(* What a program does for its contexts to close: RETINT is in a routine,  *)
(* and does not follow a GETINT, whose result comes a clock late and is    *)
(* ORed into what the next instruction writes (reflet_interrupt.v:131).    *)
ReturnsFromRoutines ==
    /\ ~control.ram_not_ready /\ executed = RETINT /\ ~interrupt_ctrl!new_int
         => level \in Ints
    /\ control.instruction_ok /\ instruction = RETINT
         => \A n \in Ints : executed # GETINT + n

(* A request for an enabled interrupt of higher priority than the current  *)
(* level is not lost, even when its line is up for a clock in the middle   *)
(* of an instruction: its context, or one of a higher priority, opens.     *)
PulseTaken ==
    []<>enable =>
      \A i \in Ints :
        (enable /\ i \in interrupt_request /\ Bit(SR, i + 1) /\ i < level)
           ~> (level <= i \/ quit)

(* The access of an instruction: its address, and the size it has for the  *)
(* one being executed.                                                     *)
AccessAddr(inst) ==
    CASE inst \in {POP, RET} -> (SP - WordBytes) % WordMod
      [] inst \in {PUSH, CALL} -> SP
      [] inst = ATOM -> WR
      [] OTHER -> registers[RegOf(inst)]

Reduced == (SR \div 2^8) % 2^8

AccessSize ==
    IF level = LEVEL_NORMAL /\ byte_mode THEN 1
    ELSE IF Reduced = 0 \/ executed \in {PUSH, POP, CALL, RET} THEN WordBytes
    ELSE 2^(Reduced - 1)

(* README.md:93: a misaligned access made with the trap enabled outside of *)
(* interrupt 0, be it of the stack, goes to the routine of interrupt 0,    *)
(* and will return to the access itself.                                   *)
TrapTaken ==
    [][ /\ ~control.ram_not_ready /\ control'.ram_not_ready
        /\ Opperand(executed) \in {STR, LOAD} \/ executed \in {PUSH, POP, CALL, RET, ATOM}
        /\ AccessSize <= WordBytes /\ AccessAddr(executed) % AccessSize # 0
        /\ Bit(SR, SR_TRAP) /\ Bit(SR, 1) /\ level # 0
        => level' = 0 /\ addr_memory'[0] = PC /\ PC' = routines[0] ]_vars
-----------------------------------------------------------------------------
(* The bus.  These two are also proved, in RtlCpu_proofs.                  *)

WordIndex(a) == a \div WordBytes
WordAt(a) == IF WordIndex(a) \in DOMAIN ram THEN ram[WordIndex(a)] ELSE 0

(* Where in its word an access of 2^k bytes is. *)
FirstBit(a) == 8 * (a % WordBytes)
BitsOf(a, k) == {b \in 0..(WordBits - 1) : b >= FirstBit(a) /\ b < FirstBit(a) + 8 * 2^k}

(* The byte of the memory at a. *)
ByteAt(a) == ShiftRight(FromBits(Bits(WordAt(a)) \cap BitsOf(a, 0)), FirstBit(a)) % 256

Stores(inst) == Opperand(inst) = STR \/ inst \in {PUSH, CALL, ATOM}

Stored == AccessAddr(instruction)

(* The instruction that the CPU executes is the byte that is at the PC: not *)
(* that of the address before, not a byte that an access has read in       *)
(* between, although the latch that ends a fetch is set by any read        *)
(* (reflet_addr.v:104) and enable may fall at any clock.  Only an          *)
(* instruction that writes in its own word is no longer there.             *)
ExecutesAtPC ==
    ~control.ram_not_ready =>
        \/ executed = ByteAt(PC)
        \/ Stores(executed) /\ WordIndex(AccessAddr(executed)) = WordIndex(PC)

(* The value that is stored, and the bits it has in its word. *)
StoredValue ==
    IF instruction = CALL THEN PC ELSE IF instruction = ATOM THEN 1 ELSE WR

StoredBits ==
    BitsOf(Stored, IF level = LEVEL_NORMAL /\ byte_mode THEN 0
                   ELSE IF instruction \in {PUSH, CALL} THEN ram_interface!size_used_max
                   ELSE ram_interface!size_normal_access)

Merged(word) ==
    FromBits((Bits(word) \ StoredBits)
             \cup (Bits(ShiftLeft(StoredValue, FirstBit(Stored), WordBits)) \cap StoredBits))

(* The memory changes in the bytes of the access of an instruction that    *)
(* stores, and nowhere else: the writer, which "assumes that the data in   *)
(* the target address is in data_in_ram" (reflet_addr.v:272), puts the rest *)
(* of the word back as it is.                                              *)
StoresItsBytes ==
    [][ ram' # ram =>
          /\ Stores(instruction)
          /\ ram' = [ram EXCEPT ![WordIndex(Stored)] = Merged(@)] ]_vars
=============================================================================
