--------------------------- MODULE RtlTypes_proofs ---------------------------
(***************************************************************************)
(* The registers of the processor, for every program, word size and        *)
(* memory: they stay in their width; and, for a program whose RETINTs are  *)
(* in its routines, interrupts nest by priority, a misaligned access goes  *)
(* to the routine of interrupt 0, and what an instruction makes of the     *)
(* registers and of the memory is what it makes of them in the simulator.  *)
(***************************************************************************)
EXTENDS RtlCpu_proofs, RtlLockstep, Words_proofs, Contexts_proofs

-----------------------------------------------------------------------------
(* The words of the machine, which may have fewer bits than HostBits. *)

LEMMA WordWidth ==
    /\ WordBytes \in Nat \ {0} /\ WordBits \in Nat \ {0} /\ WordBits <= HostBits
    /\ WordMod \in Nat /\ WordMod >= 256 /\ (WordMod % 2) = 0
    /\ HostBits \in Nat
<1>1. /\ WordBytes \in Nat \ {0} /\ WordBits \in Nat \ {0} /\ WordBits <= HostBits
      /\ WordBits >= 8
  BY RtlAssumption DEF WordBits
<1>2. HostBits \in Nat
  BY HostType
<1>3. 2^8 = 256
  OBVIOUS
<1> DEFINE eight == 8
           n == WordBits - 1
<1>4. eight \in Nat /\ n \in Nat /\ eight <= WordBits /\ n + 1 = WordBits
  BY <1>1
<1> HIDE DEF eight, n
<1>5. 2^eight <= 2^WordBits /\ 2^n \in Nat /\ 2^(n + 1) = 2 * 2^n
  BY <1>1, <1>4, PowMonotone, PowType, PowStep
<1>6. 2^eight = 256
  BY <1>3, Zenon DEF eight
<1>7. WordMod = 2 * 2^n
  BY <1>4, <1>5, Zenon DEF WordMod
<1>8. WordMod >= 256
  BY <1>5, <1>6 DEF WordMod
<1>9. WordMod \in Nat /\ (WordMod % 2) = 0
  <2> DEFINE half == 2^n
  <2>1. half \in Nat /\ WordMod = 2 * half
    BY <1>5, <1>7
  <2> HIDE DEF half
  <2> QED
    BY <2>1
<1> QED
  BY <1>1, <1>2, <1>8, <1>9

LEMMA WordIsHostWord == Word \subseteq HostWord
<1>1. 2^WordBits <= 2^HostBits /\ 2^WordBits \in Nat /\ 2^HostBits \in Nat
  BY WordWidth, PowMonotone, PowType
<1> QED
  BY <1>1 DEF Word, HostWord, WordMod, HostMod

(* The bits of a word are in its width, and bits in the width are a word. *)
LEMMA BitsOfWord ==
    ASSUME NEW v \in Word
    PROVE  Bits(v) \subseteq 0..(WordBits - 1)
<1> DEFINE low == {i \in 0..(WordBits - 1) : Bit(v, i)}
<1>1. v \in Nat /\ v \in HostWord /\ (v % WordMod) = v
  BY WordWidth, WordIsHostWord DEF Word
<1>2. FromBits(low) = v
  BY <1>1, WordWidth, FromBitsOfLow DEF WordMod
<1>3. low \in SUBSET (0..(HostBits - 1))
  BY WordWidth
<1>4. Bits(FromBits(low)) = low
  BY <1>3, BitsOfFromBits
<1> QED
  BY <1>2, <1>4

LEMMA WordOfBits ==
    ASSUME NEW S, S \subseteq 0..(WordBits - 1)
    PROVE  FromBits(S) \in Word
BY WordWidth, FromBitsBound DEF Word, WordMod

LEMMA WordBitwise ==
    ASSUME NEW v \in Word, NEW w \in Word
    PROVE  BitAnd(v, w) \in Word /\ BitOr(v, w) \in Word /\ BitXor(v, w) \in Word
<1>1. Bits(v) \subseteq 0..(WordBits - 1) /\ Bits(w) \subseteq 0..(WordBits - 1)
  BY BitsOfWord
<1>2. /\ Bits(v) \cap Bits(w) \subseteq 0..(WordBits - 1)
      /\ Bits(v) \cup Bits(w) \subseteq 0..(WordBits - 1)
      /\ (Bits(v) \cup Bits(w)) \ (Bits(v) \cap Bits(w)) \subseteq 0..(WordBits - 1)
  BY <1>1
<1> QED
  BY <1>2, WordOfBits DEF BitAnd, BitOr, BitXor

LEMMA SmallWords == 0..255 \subseteq Word
BY WordWidth DEF Word

(* Sums wrap, shifts lose bits. *)
LEMMA WordArithmetic ==
    ASSUME NEW v \in Word, NEW w \in Word
    PROVE  /\ (v + w) % WordMod \in Word /\ (WordMod - v) % WordMod \in Word
           /\ (v + WordBytes) % WordMod \in Word /\ (v - WordBytes) % WordMod \in Word
           /\ (v + 1) % WordMod \in Word
           /\ WordMod - 1 - v \in Word
           /\ ShiftLeft(v, w, WordBits) \in Word /\ ShiftRight(v, w) \in Word
<1>1. v \in Nat /\ w \in Nat /\ v < WordMod /\ WordMod \in Nat \ {0}
  BY WordWidth DEF Word
<1>2. \A x \in Int : (x % WordMod) \in Word
  BY <1>1 DEF Word
<1>3. /\ v + w \in Int /\ WordMod - v \in Int /\ v + WordBytes \in Int
      /\ v - WordBytes \in Int /\ v + 1 \in Int
  BY <1>1, WordWidth
<1>4. ShiftLeft(v, w, WordBits) \in Word /\ ShiftRight(v, w) \in Word
  <2>1. ShiftLeft(v, w, WordBits) \in 0..(2^WordBits - 1) /\ ShiftRight(v, w) \in 0..v
    BY <1>1, WordWidth, ShiftType
  <2> QED
    BY <1>1, <2>1 DEF Word, WordMod
<1>5. WordMod - 1 - v \in Word
  BY <1>1 DEF Word
<1> QED
  BY <1>2, <1>3, <1>4, <1>5

-----------------------------------------------------------------------------
(* What the units give. *)

(* The flag of a comparison replaces bit 0. *)
LEMMA FlagType ==
    ASSUME NEW sr \in Word, NEW flag \in {0, 1}
    PROVE  (sr - (sr % 2)) + flag \in Word
<1> DEFINE q == sr \div 2
           r == (sr % 2)
           h == WordMod \div 2
<1>1. sr \in Nat /\ sr <= WordMod - 1 /\ WordMod \in Nat /\ (WordMod % 2) = 0
  BY WordWidth DEF Word
<1>2. q \in Nat /\ r \in {0, 1} /\ sr = 2 * q + r
  BY <1>1
<1>3. h \in Nat /\ WordMod = 2 * h
  BY <1>1
<1> HIDE DEF q, h
<1>4. (sr - r) + flag = 2 * q + flag /\ 2 * q + flag <= WordMod - 1 /\ 2 * q + flag \in Nat
  BY <1>1, <1>2, <1>3
<1> QED
  BY <1>1, <1>4 DEF Word

LEMMA AluType ==
    ASSUME NEW i \in Byte, NEW wr \in Word, NEW other \in Word, NEW sr \in Word
    PROVE  alu_out(i, wr, other, sr) \in Word
<1>1. RegOf(i) \in Word /\ 0 \in Word
  BY SmallWords DEF RegOf, Byte
<1>2. alu_nocmp(i, wr, other) \in Word
  <2>1. /\ (wr + other) % WordMod \in Word /\ (WordMod - wr) % WordMod \in Word
        /\ WordMod - 1 - other \in Word
        /\ ShiftLeft(wr, other, WordBits) \in Word /\ ShiftRight(wr, other) \in Word
    BY WordArithmetic
  <2>2. BitAnd(wr, other) \in Word /\ BitOr(wr, other) \in Word /\ BitXor(wr, other) \in Word
    BY WordBitwise
  <2> QED
    BY <1>1, <2>1, <2>2, Zenon DEF alu_nocmp
<1>3. (sr - (sr % 2)) + (IF cmp(i, wr, other, sr) THEN 1 ELSE 0) \in Word
  BY FlagType
<1> QED
  BY <1>2, <1>3, Zenon DEF alu_out

Registers ==
    /\ registers \in [0..15 -> Word]
    /\ instruction \in Byte /\ executed \in Byte

LEMMA RegisterTypes ==
    ASSUME Registers
    PROVE  WR \in Word /\ SR \in Word /\ PC \in Word /\ SP \in Word /\ other_register \in Word
BY DEF Registers, Byte, WR, SR, PC, SP, other_register, RegOf, WR_REG, SR_REG, PC_REG, SP_REG

(* The memory interface gives at most one of its three terms. *)
LEMMA AddrOutType ==
    ASSUME Registers, reader.data_in_cpu \in Word
    PROVE  ram_interface!addr_out \in Word
<1>1. WR \in Word /\ SR \in Word /\ 0 \in Word /\ instruction \in 0..255
  BY RegisterTypes, SmallWords DEF Registers, Byte
<1>2. /\ (reader.data_in_cpu + 1) % WordMod \in Word
      /\ (SR - (SR % 2)) + (IF reader.data_in_cpu = 0 THEN 1 ELSE 0) \in Word
  BY <1>1, WordArithmetic, FlagType
<1>3. \A w \in Word : w + 0 + 0 = w /\ 0 + w + 0 = w /\ 0 + 0 + w = w
  BY WordWidth DEF Word
<1>4. /\ ram_interface!data_in_usable \in Word /\ ram_interface!wr_out \in Word
      /\ ram_interface!atom_out \in Word
  <2>1. ram_interface!WordMod = WordMod
    BY DEF ram_interface!WordMod, WordMod, ram_interface!WordBits, WordBits
  <2> QED
    BY <1>1, <1>2, <2>1, Zenon
       DEF ram_interface!data_in_usable, ram_interface!wr_out, ram_interface!atom_out
<1>5. \/ ram_interface!wr_out = 0 /\ ram_interface!atom_out = 0
      \/ ram_interface!data_in_usable = 0 /\ ram_interface!atom_out = 0
      \/ ram_interface!data_in_usable = 0 /\ ram_interface!wr_out = 0
  BY <1>1 DEF ram_interface!data_in_usable, ram_interface!wr_out, ram_interface!atom_out,
     ram_interface!Opperand, ram_interface!STR, ram_interface!LOAD, ram_interface!PUSH,
     ram_interface!POP, ram_interface!CALL, ram_interface!RET, ram_interface!TBM,
     ram_interface!ATOM
<1> QED
  BY <1>3, <1>4, <1>5 DEF ram_interface!addr_out

Controller ==
    /\ int_masked_latched \subseteq Ints
    /\ level \in 0..LEVEL_NORMAL
    /\ level_memory \in [Ints -> 0..7]
    /\ addr_memory \in [Ints -> Word] /\ routines \in [Ints -> Word]
    /\ WellNested(level_memory, level)

LEMMA AddrMemoryOutType ==
    ASSUME Registers, Controller
    PROVE  interrupt_ctrl!addr_memory_out \subseteq Word
<1>1. WR \in Word /\ 0 \in Word /\ addr_memory \in [Ints -> Word]
  BY RegisterTypes, SmallWords DEF Controller
<1>2. ASSUME NEW n \in interrupt_ctrl!Ints, executed = interrupt_ctrl!GETINTSTACK + n
      PROVE  addr_memory[executed - interrupt_ctrl!GETINTSTACK] \in Word
  <2>1. executed - interrupt_ctrl!GETINTSTACK = n /\ n \in Ints
    BY <1>2 DEF interrupt_ctrl!GETINTSTACK, interrupt_ctrl!Ints, Ints
  <2> QED
    BY <1>1, <2>1
<1>3. interrupt_ctrl!previous_addr \subseteq Word
  BY <1>1, RtlAssumption DEF interrupt_ctrl!previous_addr, interrupt_ctrl!Ints, Ints, Word
<1> QED
  BY <1>1, <1>2, <1>3, Zenon DEF interrupt_ctrl!addr_memory_out

-----------------------------------------------------------------------------
(* Every register keeps its width. *)

Memories ==
    /\ {content, addr, getint_out, data_out_array} \subseteq Word
    /\ {reader.data_in_cpu, writer.data_out_ram} \subseteq Word
    /\ ram \in [0..(RamWords - 1) -> Word]

Typed == Registers /\ Controller /\ Memories /\ quit \in BOOLEAN

(* The request that is taken is that of an interrupt. *)
LEMMA TargetIsInterrupt ==
    ASSUME Controller, interrupt_ctrl!new_int
    PROVE  interrupt_ctrl!target_level \in Ints /\ interrupt_ctrl!target_level < level
BY DEF Controller, interrupt_ctrl!new_int, interrupt_ctrl!target_level,
       interrupt_ctrl!LEVEL_NORMAL, LEVEL_NORMAL, Ints

LEMMA TickRegisters ==
    ASSUME Typed, Tick
    PROVE  Registers' /\ quit' \in BOOLEAN
<1>1. registers' \in [0..15 -> Word] /\ quit' \in BOOLEAN
  <2>1. CASE control.ram_not_ready
    BY <2>1 DEF Tick, UpdateRegisters, Typed, Registers
  <2>2. CASE TakeInterrupt /\ interrupt_ctrl!new_int
    <3>1. interrupt_ctrl!out_routine \in Word
      BY <2>2, TargetIsInterrupt DEF interrupt_ctrl!out_routine, Typed, Controller
    <3> QED
      BY <2>2, <3>1 DEF TakeInterrupt, Typed, Registers
  <2>3. CASE Execute
    <3> DEFINE sp == SPAfter
               pc == IF index = PC_REG THEN PC ELSE NextPC
               moved == [registers EXCEPT ![SP_REG] = sp, ![PC_REG] = pc]
               i == index
    <3>1. sp \in Word /\ pc \in Word /\ content \in Word
      BY RegisterTypes, WordArithmetic DEF Typed, Memories, SPAfter, NextPC
    <3>2. /\ registers' = IF executed \in {QUIT, PUSH} THEN moved
                          ELSE [moved EXCEPT ![i] = content]
          /\ quit' \in BOOLEAN
      BY <2>3 DEF Execute
    <3> HIDE DEF sp, pc, i
    <3>3. moved \in [0..15 -> Word]
      BY <3>1 DEF Typed, Registers
    <3> HIDE DEF moved
    <3> QED
      BY <3>1, <3>2, <3>3
  <2> QED
    BY <2>1, <2>2, <2>3 DEF Tick, UpdateRegisters
<1>2. executed' \in Byte
  BY DEF Tick, Typed, Registers
<1>3. instruction' \in Byte
  <2>1. instruction' = instruction \/ instruction' = reader.data_in_cpu % 256
    BY DEF Tick, ram_interface!Clock, ram_interface!Sequence, ram_interface!StartAccess,
       ram_interface!AwaitAccess, ram_interface!Finish, ram_interface!Update,
       ram_interface!StartFetch, ram_interface!CountDelay, ram_interface!AwaitFetch,
       ram_interface!Decode
  <2>2. reader.data_in_cpu \in Word
    BY DEF Typed, Memories
  <2>3. reader.data_in_cpu % 256 \in Byte
    BY <2>2, WordWidth DEF Word, Byte
  <2> QED
    BY <2>1, <2>3 DEF Typed, Registers
<1> QED
  BY <1>1, <1>2, <1>3 DEF Registers

(* The chain of contexts opens and closes as RtlInterrupt_proofs shows; a  *)
(* RETINT in the program would take a level that is not in the table.      *)
LEMMA TickController ==
    ASSUME Typed, ReturnsFromRoutines, Tick
    PROVE  Controller' /\ getint_out' \in Word
<1>1. /\ Controller /\ WR \in Word /\ PC \in Word /\ NextPC \in Word /\ 0 \in Word
  BY RegisterTypes, WordArithmetic, SmallWords DEF Typed, NextPC
<1>2. int_masked_latched' \subseteq Ints
  <2>1. interrupt_ctrl!int_masked \subseteq Ints
    BY DEF interrupt_ctrl!int_masked
  <2> QED
    BY <1>1, <2>1 DEF Tick, interrupt_ctrl!Clock, interrupt_ctrl!Latch, Controller
<1>3. routines' \in [Ints -> Word] /\ getint_out' \in Word
  <2>1. CASE interrupt_ctrl!ReadRoutine
    BY <1>1, <2>1 DEF interrupt_ctrl!ReadRoutine, Controller, interrupt_ctrl!Ints, Ints
  <2>2. CASE \E n \in interrupt_ctrl!Ints : interrupt_ctrl!SetRoutine(n)
    <3>1. PICK n \in interrupt_ctrl!Ints : interrupt_ctrl!SetRoutine(n)
      BY <2>2
    <3> QED
      BY <1>1, <3>1 DEF interrupt_ctrl!SetRoutine, Controller, interrupt_ctrl!Ints, Ints
  <2> QED
    BY <2>1, <2>2 DEF Tick, interrupt_ctrl!Clock
<1>4. CASE interrupt_ctrl!Enter
  <2> DEFINE i == interrupt_ctrl!target_level
             back == IF interrupt_ctrl!softint_request # {}
                     THEN (PC + 1) % WordMod ELSE PC
  <2>1. i \in Ints /\ i < level
    BY <1>1, <1>4, TargetIsInterrupt DEF interrupt_ctrl!Enter
  <2>2. back \in Word
    BY <1>1 DEF NextPC
  <2>3. /\ level' = i
        /\ addr_memory' = [addr_memory EXCEPT ![i] = back]
        /\ level_memory' = [level_memory EXCEPT ![i] = level]
    BY <1>4, Zenon DEF interrupt_ctrl!Enter
  <2> HIDE DEF i, back
  <2>4. addr_memory' \in [Ints -> Word] /\ level_memory' \in [Ints -> 0..7]
    BY <1>1, <2>1, <2>2, <2>3 DEF Controller, LEVEL_NORMAL
  <2>5. WellNested(level_memory', i)
    BY <1>1, <2>1, <2>3, OpenOnTop DEF Controller, OnTop
  <2> QED
    BY <1>2, <1>3, <2>1, <2>3, <2>4, <2>5 DEF Controller, LEVEL_NORMAL, Ints
<1>5. CASE interrupt_ctrl!Return
  <2>1. level \in Ints
    BY <1>5 DEF ReturnsFromRoutines, interrupt_ctrl!Return, interrupt_ctrl!Returning,
       interrupt_ctrl!RETINT, RETINT
  <2>2. level' = level_memory[level] /\ UNCHANGED <<level_memory, addr_memory>>
    BY <1>5, <2>1 DEF interrupt_ctrl!Return, interrupt_ctrl!Ints, Ints
  <2>3. /\ level_memory[level] \in (level + 1)..LEVEL_NORMAL
        /\ WellNested(level_memory, level_memory[level])
    BY <1>1, <2>1, CloseTop DEF Controller
  <2> QED
    BY <1>1, <1>2, <1>3, <2>1, <2>2, <2>3 DEF Controller, LEVEL_NORMAL, Ints
<1>6. CASE interrupt_ctrl!Stay
  BY <1>1, <1>2, <1>3, <1>6 DEF interrupt_ctrl!Stay, interrupt_ctrl!nestVars, Controller
<1>7. CASE \E n \in interrupt_ctrl!Ints : interrupt_ctrl!Redirect(n)
  <2>1. PICK n \in interrupt_ctrl!Ints : interrupt_ctrl!Redirect(n)
    BY <1>7
  <2> QED
    BY <1>1, <1>2, <1>3, <2>1 DEF interrupt_ctrl!Redirect, Controller
<1> QED
  BY <1>3, <1>4, <1>5, <1>6, <1>7 DEF Tick, interrupt_ctrl!Clock

(* The address on the bus, and the bits of an access in its word. *)
LEMMA BusTypes ==
    ASSUME Registers
    PROVE  /\ ram_interface!cpu_addr \in Word
           /\ ram_interface!mask \subseteq 0..(WordBits - 1)
           /\ ram_interface!shift \in Nat
<1>1. /\ WR \in Word /\ PC \in Word /\ SP \in Word /\ other_register \in Word /\ 0 \in Word
      /\ (SP - WordBytes) % WordMod \in Word
  BY RegisterTypes, WordArithmetic, SmallWords
<1>2. ram_interface!WordMod = WordMod /\ ram_interface!WordBits = WordBits
  BY DEF ram_interface!WordMod, WordMod, ram_interface!WordBits, WordBits
<1>3. ram_interface!cpu_addr \in Word
  BY <1>1, <1>2, Zenon DEF ram_interface!cpu_addr
<1>4. ram_interface!shift \in Nat
  BY <1>3, WordWidth DEF ram_interface!shift, Word
<1> QED
  BY <1>2, <1>3, <1>4 DEF ram_interface!mask

(* A part of a word that is taken or put in its place is a word. *)
LEMMA TickBus ==
    ASSUME Typed, Tick
    PROVE  addr' \in Word /\ reader'.data_in_cpu \in Word /\ writer'.data_out_ram \in Word
<1> DEFINE mask == ram_interface!mask
           shift == ram_interface!shift
           read == FromBits(Bits(data_in) \cap mask)
           stored == Bits(ShiftLeft(ram_interface!data_out_cpu, shift, WordBits))
           written == FromBits((Bits(data_in) \ mask) \cup (stored \cap mask))
<1>1. /\ ram_interface!cpu_addr \in Word /\ mask \subseteq 0..(WordBits - 1)
      /\ shift \in Nat /\ data_in \in Word
  <2>1. data_in \in Word
    BY SmallWords DEF data_in, Typed, Memories
  <2> QED
    BY <2>1, BusTypes DEF Typed
<1>2. ram_interface!Read /\ ram_interface!Write /\ addr' = ram_interface!cpu_addr
  BY DEF Tick, ram_interface!Clock
<1>3. Bits(data_in) \subseteq 0..(WordBits - 1)
  BY <1>1, BitsOfWord
<1> HIDE DEF mask, shift, stored
<1>4. read \in Word /\ written \in Word
  <2>1. /\ Bits(data_in) \cap mask \subseteq 0..(WordBits - 1)
        /\ (Bits(data_in) \ mask) \cup (stored \cap mask) \subseteq 0..(WordBits - 1)
    BY <1>1, <1>3
  <2> QED
    BY <2>1, WordOfBits
<1> HIDE DEF read, written
<1>5. ShiftRight(read, shift) \in Word
  <2>1. read \in Nat /\ WordBits \in Nat
    BY <1>4, WordWidth DEF Word
  <2>2. ShiftRight(read, shift) \in 0..read
    BY <1>1, <2>1, ShiftType
  <2> QED
    BY <1>4, <2>2, WordWidth DEF Word
<1>6. reader'.data_in_cpu \in {ShiftRight(read, shift), reader.data_in_cpu}
  <2>1. ShiftRight(read, shift)
          = ram_interface!ShiftRight(ram_interface!FromBits(ram_interface!Bits(data_in)
                                                            \cap ram_interface!mask),
                                     ram_interface!shift)
    BY SameWords DEF read, mask, shift
  <2> QED
    BY <1>2, <2>1 DEF ram_interface!Read
<1>7. writer'.data_out_ram \in {written, writer.data_out_ram}
  <2>1. written = ram_interface!data_to_write
    BY SameWords DEF written, stored, mask, shift, ram_interface!data_to_write
  <2> QED
    BY <1>2, <2>1 DEF ram_interface!Write
<1> QED
  BY <1>1, <1>2, <1>4, <1>5, <1>6, <1>7 DEF Typed, Memories

(* The content and the memory go on when the processor is held. *)
LEMMA NextMemories ==
    ASSUME Typed, Next
    PROVE  /\ content' \in Word /\ data_out_array' \in Word
           /\ ram' \in [0..(RamWords - 1) -> Word]
<1>1. Registers /\ Controller /\ Memories
  BY DEF Typed
<1>2. content' \in Word
  <2> DEFINE alu == alu_out(executed, WR, other_register, SR)
             mem == ram_interface!addr_out
  <2>1. alu \in Word /\ mem \in Word /\ getint_out \in Word
    BY <1>1, RegisterTypes, AluType, AddrOutType DEF Registers, Memories
  <2>2. PICK int \in interrupt_ctrl!addr_memory_out :
          content' = BitOr(BitOr(alu, mem), BitOr(getint_out, int))
    BY DEF Next, KeepContent
  <2>3. int \in Word
    BY <1>1, <2>2, AddrMemoryOutType
  <2> HIDE DEF alu, mem
  <2> QED
    BY <2>1, <2>2, <2>3, WordBitwise
<1>3. PowerUp \subseteq Word
  BY RtlAssumption DEF Word
<1> QED
  BY <1>1, <1>2, <1>3 DEF Next, ClockRam, Memories

LEMMA StepTyped ==
    ASSUME Typed, ReturnsFromRoutines, [Next]_vars
    PROVE  Typed'
<1>1. CASE UNCHANGED vars
  BY <1>1 DEF vars, cpuVars, memoryVars, interruptVars, Typed, Registers, Controller, Memories
<1>2. CASE Next /\ Held
  BY <1>2, NextMemories
     DEF Held, cpuVars, memoryVars, interruptVars, Typed, Registers, Controller, Memories
<1>3. CASE Next /\ Tick
  BY <1>3, NextMemories, TickRegisters, TickController, TickBus DEF Typed, Memories
<1> QED
  BY <1>1, <1>2, <1>3 DEF Next

(* The bytes of a word of an image. *)
LEMMA BytesBound ==
    ASSUME NEW n \in Nat, NEW f,
           \A k \in 0..(n - 1) : \E b \in 0..255 : f[k] = b * 2^(8 * k)
    PROVE  SumFunctionOnSet(f, 0..(n - 1)) \in 0..(2^(8 * n) - 1)
<1> DEFINE Good == {k \in Nat : k <= n => SumFunctionOnSet(f, 0..(k - 1)) \in 0..(2^(8 * k) - 1)}
<1>1. 0 \in Good
  <2>1. 0..(0 - 1) = {} /\ 2^(8 * 0) = 1
    OBVIOUS
  <2> QED
    BY <2>1, SumEmpty
<1>2. ASSUME NEW k \in Nat, k \in Good
      PROVE  k + 1 \in Good
  <2>1. SUFFICES ASSUME k + 1 <= n
        PROVE  SumFunctionOnSet(f, 0..((k + 1) - 1)) \in 0..(2^(8 * (k + 1)) - 1)
    OBVIOUS
  <2> DEFINE eight == 8
             p == 2^(8 * k)
             S == 0..((k + 1) - 1)
             rest == SumFunctionOnSet(f, S \ {k})
  <2>2. k \in S /\ S \ {k} = 0..(k - 1) /\ IsFiniteSet(S)
    <3>1. (k + 1) - 1 = k
      OBVIOUS
    <3>2. S = 0..k /\ IsFiniteSet(0..k)
      BY <3>1, FS_Interval
    <3> HIDE DEF S
    <3> QED
      BY <3>2
  <2>3. 8 * k \in Nat /\ eight \in Nat /\ 8 * (k + 1) = 8 * k + eight
    OBVIOUS
  <2>4. 2^eight = 256
    OBVIOUS
  <2> HIDE DEF eight
  <2>5. p \in Nat \ {0} /\ 2^(8 * (k + 1)) = p * 256
    <3>1. 2^(8 * k + eight) = 2^(8 * k) * 2^eight /\ 2^(8 * k) \in Nat \ {0}
      BY <2>3, PowAdd, PowPositive
    <3> QED
      BY <2>3, <2>4, <3>1, Zenon
  <2>6. rest \in 0..(p - 1)
    <3>1. k <= n
      BY <2>1
    <3>2. SumFunctionOnSet(f, 0..(k - 1)) \in 0..(2^(8 * k) - 1)
      BY <1>2, <3>1
    <3>3. S \ {k} = 0..(k - 1)
      BY <2>2
    <3> HIDE DEF S
    <3> QED
      BY <3>2, <3>3, Zenon
  <2>7. PICK b \in 0..255 : f[k] = b * p
    <3>1. k \in 0..(n - 1)
      BY <2>1
    <3> QED
      BY <3>1
  <2>8. SumFunctionOnSet(f, S) = f[k] + rest
    <3>1. ASSUME NEW i \in S
          PROVE  f[i] \in Nat
      <4>1. i \in 0..(n - 1) /\ 8 * i \in Nat
        BY <2>1
      <4>2. PICK c \in 0..255 : f[i] = c * 2^(8 * i)
        BY <4>1
      <4>3. 2^(8 * i) \in Nat
        BY <4>1, PowType
      <4> QED
        BY <4>2, <4>3
    <3> QED
      BY <2>2, <3>1, SumTake
  <2> HIDE DEF p, S, rest
  <2>9. b * p + rest \in 0..(p * 256 - 1)
    <3>1. b * p \in Nat /\ b * p <= 255 * p
      BY <2>5, <2>7
    <3> QED
      BY <2>5, <2>6, <3>1
  <2> QED
    BY <2>5, <2>7, <2>8, <2>9, Zenon DEF S
<1> HIDE DEF Good
<1>3. n \in Good
  BY <1>1, <1>2, Induction
<1> QED
  BY <1>3 DEF Good

LEMMA WordOfType ==
    ASSUME NEW image \in Images, NEW w \in 0..(RamWords - 1)
    PROVE  WordOf(image, w) \in Word
<1> DEFINE f == [k \in 0..(WordBytes - 1) |-> image[w * WordBytes + k] * 2^(8 * k)]
<1>1. ASSUME NEW k \in 0..(WordBytes - 1)
      PROVE  \E b \in 0..255 : f[k] = b * 2^(8 * k)
  <2>1. w * WordBytes + k \in 0..(RamSize - 1)
    BY RtlAssumption DEF RamWords
  <2>2. image[w * WordBytes + k] \in 0..255
    BY <2>1, RtlAssumption
  <2> QED
    BY <2>2
<1>2. DOMAIN f = 0..(WordBytes - 1)
  OBVIOUS
<1> HIDE DEF f
<1>3. SumFunctionOnSet(f, 0..(WordBytes - 1)) \in 0..(2^(8 * WordBytes) - 1)
  BY <1>1, WordWidth, BytesBound
<1>4. WordOf(image, w) = SumFunctionOnSet(f, 0..(WordBytes - 1))
  BY <1>2, Zenon DEF WordOf, SumFunction, f
<1> QED
  BY <1>3, <1>4 DEF Word, WordMod, WordBits

LEMMA InitTyped == Init => Typed
<1> SUFFICES ASSUME Init
             PROVE  Typed
  OBVIOUS
<1>1. /\ PowerUp \subseteq Word /\ \A junk \in PowerUp : (junk % 256) \in Byte
      /\ \A junk \in PowerUp : (junk % 8) \in 0..7
      /\ 0 \in Word /\ 4 \in Word
  BY RtlAssumption, WordWidth DEF Word, Byte
<1>2. registers \in [0..15 -> Word] /\ executed \in Byte /\ quit \in BOOLEAN /\ content \in Word
  BY <1>1 DEF Init
<1>3. /\ instruction \in Byte /\ addr \in Word
      /\ reader.data_in_cpu \in Word /\ writer.data_out_ram \in Word
  <2>1. ram_interface!Reset
    BY DEF Init
  <2>2. instruction \in Byte /\ addr \in Word
    BY <1>1, <2>1 DEF ram_interface!Reset
  <2>3. reader.data_in_cpu \in PowerUp /\ writer.data_out_ram \in PowerUp
    BY <2>1 DEF ram_interface!Reset
  <2> QED
    BY <1>1, <2>2, <2>3
<1>4. Controller /\ getint_out \in Word
  <2>1. interrupt_ctrl!Reset
    BY DEF Init
  <2>2. /\ int_masked_latched = {} /\ level = LEVEL_NORMAL /\ getint_out = 0
        /\ level_memory \in [Ints -> 0..7]
        /\ addr_memory \in [Ints -> Word] /\ routines \in [Ints -> Word]
    BY <1>1, <2>1 DEF interrupt_ctrl!Reset, interrupt_ctrl!LEVEL_NORMAL, LEVEL_NORMAL,
       interrupt_ctrl!Ints, Ints
  <2> QED
    BY <1>1, <2>2, NoneOpen DEF Controller, LEVEL_NORMAL
<1>5. ram \in [0..(RamWords - 1) -> Word] /\ data_out_array \in Word
  BY <1>1, WordOfType DEF Init
<1> QED
  BY <1>2, <1>3, <1>4, <1>5 DEF Typed, Registers, Memories

LEMMA TypesInvariance == Spec /\ []ReturnsFromRoutines => []Typed
<1>1. Init => Typed
  BY InitTyped
<1>2. Typed /\ ReturnsFromRoutines /\ [Next]_vars => Typed'
  BY StepTyped
<1> QED
  BY <1>1, <1>2, PTL DEF Spec

(* As long as its RETINTs are in routines, no program, image of the memory *)
(* or request takes a register of the processor out of its width: not the  *)
(* sum of the terms that the memory interface ORs, not the OR of the units *)
(* in content, nor the level.                                              *)
THEOREM RegistersKeepTheirWidth == Spec /\ []ReturnsFromRoutines => []TypeOK
<1>1. Typed /\ IInv => TypeOK
  BY DEF Typed, Registers, Controller, Memories, IInv, Timing, Shape, ControlShape, TypeOK
<1> QED
  BY <1>1, TypesInvariance, Invariance, PTL

-----------------------------------------------------------------------------
(* RETINT.  The address goes through content, which is ORed from all of    *)
(* the units a clock before the update.                                    *)

ReturnAddress ==
    instruction = RETINT =>
        /\ control.readying_ram => executed = RETINT /\ getint_out = 0
        /\ ~control.ram_not_ready =>
             /\ getint_out = 0
             /\ level \in Ints => content = addr_memory[level]

(* The other units give 0 for RETINT. *)
LEMMA ReturnContent ==
    ASSUME Typed, Next, instruction = RETINT, executed = RETINT, getint_out = 0, level \in Ints
    PROVE  content' = addr_memory[level]
<1>1. alu_out(executed, WR, other_register, SR) = 0
  <2>1. ~cmp_opp(executed) /\ Opperand(executed) = 14
    BY DEF cmp_opp, Opperand, RETINT, EQ, LES, CMPNOT
  <2>2. alu_nocmp(executed, WR, other_register) = 0
    BY <2>1 DEF alu_nocmp, RETINT, ADD, AND, OR, XOR, NOT, LSL, LSR, CC2, CPY, JIF, DEBUG,
       SET, READ
  <2> QED
    BY <2>1, <2>2, Zenon DEF alu_out
<1>2. ram_interface!addr_out = 0
  BY DEF ram_interface!addr_out, ram_interface!data_in_usable, ram_interface!wr_out,
     ram_interface!atom_out, RETINT, ram_interface!Opperand, ram_interface!STR,
     ram_interface!LOAD, ram_interface!PUSH, ram_interface!POP, ram_interface!CALL,
     ram_interface!RET, ram_interface!TBM, ram_interface!ATOM
<1>3. interrupt_ctrl!addr_memory_out = {addr_memory[level]}
  BY DEF interrupt_ctrl!addr_memory_out, interrupt_ctrl!previous_addr, interrupt_ctrl!RETINT,
     RETINT, interrupt_ctrl!Ints, Ints
<1>4. content' = BitOr(BitOr(0, 0), BitOr(0, addr_memory[level]))
  BY <1>1, <1>2, <1>3, Zenon DEF Next, KeepContent
<1>5. addr_memory[level] \in HostWord /\ 0 \in HostWord
  BY SmallWords, WordIsHostWord DEF Typed, Controller
<1>6. BitOr(0, 0) = 0 /\ BitOr(0, addr_memory[level]) = addr_memory[level]
  BY <1>5, OrZero
<1> QED
  BY <1>4, <1>6, Zenon

(* The register that RETINT writes is the PC. *)
LEMMA ReturnIndex ==
    ASSUME instruction = RETINT, executed = RETINT
    PROVE  index = PC_REG
<1>1. alu_out_reg(executed, SR) = 0
  BY DEF alu_out_reg, cmp_opp, Opperand, RETINT, EQ, LES, CMPNOT, CPY, JIF, WR_REG
<1>2. ram_interface!addr_out_reg = 0 /\ interrupt_ctrl!out_reg = PC_REG
  BY DEF ram_interface!addr_out_reg, ram_interface!RET, ram_interface!CALL,
     ram_interface!ATOM, ram_interface!WR_REG, interrupt_ctrl!out_reg,
     interrupt_ctrl!RETINT, interrupt_ctrl!PC_REG, RETINT, PC_REG
<1>3. PC_REG \in HostWord
  BY SmallWords, WordIsHostWord DEF PC_REG
<1>4. BitOr(0, PC_REG) = PC_REG
  BY <1>3, OrZero
<1> QED
  BY <1>1, <1>2, <1>4, Zenon DEF index

LEMMA StepReturnAddress ==
    ASSUME IInv, Typed, ReturnsFromRoutines, ReturnAddress, [Next]_vars
    PROVE  ReturnAddress'
<1>1. /\ Shape /\ Phases
      /\ ~control.ram_not_ready => executed = instruction
  BY DEF IInv, Timing, InstructionAtPC
<1>2. CASE UNCHANGED vars
  BY <1>2 DEF vars, cpuVars, memoryVars, interruptVars, ReturnAddress
<1>3. CASE Next /\ Held
  <2>1. UNCHANGED <<instruction, executed, control, getint_out, level, addr_memory>>
    BY <1>3 DEF Held, cpuVars, memoryVars, interruptVars
  <2> SUFFICES ASSUME instruction = RETINT, ~control.ram_not_ready, level \in Ints
               PROVE  content' = addr_memory[level]
    BY <2>1 DEF ReturnAddress
  <2> QED
    BY <1>1, <1>3, ReturnContent DEF ReturnAddress
<1>4. CASE Next /\ Tick
  <2>1. executed' = instruction /\ ram_interface!Sequence /\ interrupt_ctrl!Clock
    BY <1>4 DEF Tick, ram_interface!Clock
  <2>2. (\A n \in Ints : executed # GETINT + n) => getint_out' = 0
    BY <2>1 DEF interrupt_ctrl!Clock, interrupt_ctrl!ReadRoutine, interrupt_ctrl!SetRoutine,
       interrupt_ctrl!Ints, Ints, interrupt_ctrl!GETINT, GETINT
  <2>3. CASE ram_interface!Finish
    <3>1. /\ control.instruction_ok /\ instruction' = instruction
          /\ control'.ram_not_ready = control.ram_not_ready
      BY <1>1, <2>3 DEF ram_interface!Finish, Shape, ControlShape, Flags
    <3> QED
      BY <1>1, <2>1, <2>2, <3>1 DEF ReturnsFromRoutines, Phases, ReturnAddress
  <2>4. CASE ram_interface!Update
    <3>1. /\ control.readying_ram /\ control.ram_not_ready /\ instruction' = instruction
          /\ control'.readying_ram = FALSE
      BY <1>1, <2>4 DEF ram_interface!Update, Shape, ControlShape, Flags, Phases
    <3> SUFFICES ASSUME instruction = RETINT
                 PROVE  getint_out' = 0 /\ (level' \in Ints => content' = addr_memory'[level'])
      BY <3>1 DEF ReturnAddress
    <3>2. executed = RETINT /\ getint_out = 0
      BY <3>1 DEF ReturnAddress
    <3>3. UNCHANGED <<level, addr_memory>>
      BY <2>1, <3>1, <3>2
         DEF interrupt_ctrl!Clock, interrupt_ctrl!Enter, interrupt_ctrl!Return,
             interrupt_ctrl!Returning, interrupt_ctrl!Stay, interrupt_ctrl!Redirect,
             interrupt_ctrl!nestVars, interrupt_ctrl!SETINTSTACK, interrupt_ctrl!Ints, RETINT
    <3>4. getint_out' = 0
      BY <2>2, <3>2 DEF RETINT, GETINT, Ints
    <3>5. level \in Ints => content' = addr_memory[level]
      BY <1>4, <3>2, ReturnContent
    <3> QED
      BY <3>3, <3>4, <3>5
  <2>5. ASSUME control'.ram_not_ready, ~control'.readying_ram
        PROVE  ReturnAddress'
    BY <2>5 DEF ReturnAddress
  <2>6. CASE ram_interface!StartAccess
    BY <1>1, <2>5, <2>6 DEF ram_interface!StartAccess, Shape, ControlShape, Flags, Phases
  <2>7. CASE ram_interface!AwaitAccess
    BY <1>1, <2>5, <2>7 DEF ram_interface!AwaitAccess, Shape, ControlShape, Flags, Phases
  <2>8. CASE ram_interface!StartFetch
    BY <1>1, <2>5, <2>8 DEF ram_interface!StartFetch, ram_interface!Idle,
       Shape, ControlShape, Flags, Phases
  <2>9. CASE ram_interface!CountDelay
    BY <1>1, <2>5, <2>9 DEF ram_interface!CountDelay, ram_interface!Idle,
       Shape, ControlShape, Flags, Phases
  <2>10. CASE ram_interface!AwaitFetch
    BY <1>1, <2>5, <2>10 DEF ram_interface!AwaitFetch, ram_interface!Idle,
       Shape, ControlShape, Flags, Phases
  <2>11. CASE ram_interface!Decode
    BY <1>1, <2>5, <2>11 DEF ram_interface!Decode, ram_interface!Idle,
       Shape, ControlShape, Flags, Phases
  <2> QED
    BY <2>1, <2>3, <2>4, <2>6, <2>7, <2>8, <2>9, <2>10, <2>11 DEF ram_interface!Sequence
<1> QED
  BY <1>2, <1>3, <1>4 DEF Next

-----------------------------------------------------------------------------
(* Interrupts nest by priority. *)

NestStep == Nest!NestNext \/ UNCHANGED Nest!nestVars

LEMMA StillContexts ==
    ASSUME UNCHANGED <<level, level_memory, addr_memory>>
    PROVE  NestStep
<1>1. Open(level_memory, level)' = Open(level_memory, level)
  BY DEF Open, Under
<1> QED
  BY <1>1 DEF NestStep, Nest!NestNext, Nest!Run

LEMMA EnterNests ==
    ASSUME Typed, interrupt_ctrl!Enter
    PROVE  NestStep
<1>1. PICK i \in Ints : i = interrupt_ctrl!target_level /\ i < level
  BY TargetIsInterrupt DEF Typed, interrupt_ctrl!Enter
<1>2. /\ level' = i /\ level_memory' = [level_memory EXCEPT ![i] = level]
      /\ addr_memory' = [addr_memory EXCEPT ![i] = addr_memory'[i]]
  BY <1>1 DEF interrupt_ctrl!Enter, Typed, Controller
<1>3. OnTop(level_memory, level, level_memory', i)
  BY <1>1, <1>2, OpenOnTop DEF Typed, Controller
<1>4. /\ Open(level_memory, level)' = Open(level_memory, level) \cup {i}
      /\ \A l \in Open(level_memory, level) : i < l
  BY <1>2, <1>3 DEF OnTop, Open, Under
<1>5. Nest!Enter(i)
  BY <1>2, <1>4 DEF Nest!Enter
<1> QED
  BY <1>1, <1>5 DEF NestStep, Nest!NestNext, Ints, Nest!Ints

LEMMA ReturnNests ==
    ASSUME IInv, Typed, ReturnsFromRoutines, ReturnAddress, Tick, interrupt_ctrl!Return
    PROVE  NestStep
<1>1. /\ ~control.ram_not_ready /\ ~interrupt_ctrl!new_int
      /\ executed = RETINT /\ instruction = RETINT /\ level \in Ints
  BY DEF interrupt_ctrl!Return, interrupt_ctrl!Returning, interrupt_ctrl!RETINT, RETINT,
     ReturnsFromRoutines, IInv, InstructionAtPC
<1>2. level' = level_memory[level] /\ UNCHANGED <<level_memory, addr_memory>>
  BY <1>1 DEF interrupt_ctrl!Return, interrupt_ctrl!Ints, Ints
<1>3. PC' = addr_memory[level]
  <2>1. content = addr_memory[level]
    BY <1>1 DEF ReturnAddress
  <2>2. Execute /\ index = PC_REG
    BY <1>1, ReturnIndex DEF Tick, UpdateRegisters
  <2>3. executed \notin {QUIT, PUSH}
    BY <1>1 DEF RETINT, QUIT, PUSH
  <2> DEFINE sp == SPAfter
             pc == IF index = PC_REG THEN PC ELSE NextPC
             moved == [registers EXCEPT ![SP_REG] = sp, ![PC_REG] = pc]
  <2>4. registers' = [moved EXCEPT ![index] = content]
    BY <2>2, <2>3, Zenon DEF Execute
  <2>5. PC_REG \in DOMAIN moved
    BY DEF Typed, Registers, PC_REG
  <2> HIDE DEF moved
  <2>6. registers'[PC_REG] = content
    BY <2>2, <2>4, <2>5
  <2> QED
    BY <2>1, <2>6 DEF PC
<1>4. /\ Open(level_memory, level_memory[level]) = Open(level_memory, level) \ {level}
      /\ level \in Open(level_memory, level)
      /\ \A l \in Open(level_memory, level) : level <= l
  BY <1>1, CloseTop DEF Typed, Controller
<1>5. Open(level_memory, level)' = Open(level_memory, level) \ {level}
  BY <1>2, <1>4 DEF Open, Under
<1>6. Nest!Leave(level)
  BY <1>2, <1>3, <1>4, <1>5 DEF Nest!Leave, Nest!Innermost
<1> QED
  BY <1>1, <1>6 DEF NestStep, Nest!NestNext, Ints, Nest!Ints

LEMMA RedirectNests ==
    ASSUME Typed, NEW n \in Ints, interrupt_ctrl!Redirect(n)
    PROVE  NestStep
<1>1. /\ UNCHANGED <<level, level_memory>>
      /\ addr_memory' = [addr_memory EXCEPT ![n] = addr_memory'[n]]
  BY DEF interrupt_ctrl!Redirect, Typed, Controller
<1>2. Open(level_memory, level)' = Open(level_memory, level)
  BY <1>1 DEF Open, Under
<1> QED
  BY <1>1, <1>2 DEF NestStep, Nest!NestNext, Nest!Redirect, Ints, Nest!Ints

LEMMA StepNests ==
    ASSUME IInv, Typed, ReturnsFromRoutines, ReturnAddress, [Next]_vars
    PROVE  NestStep
<1>1. CASE Next /\ Tick
  <2>1. CASE interrupt_ctrl!Enter
    BY <2>1, EnterNests
  <2>2. CASE interrupt_ctrl!Return
    BY <1>1, <2>2, ReturnNests
  <2>3. CASE interrupt_ctrl!Stay
    BY <2>3, StillContexts DEF interrupt_ctrl!Stay, interrupt_ctrl!nestVars
  <2>4. CASE \E n \in interrupt_ctrl!Ints : interrupt_ctrl!Redirect(n)
    BY <2>4, RedirectNests DEF interrupt_ctrl!Ints, Ints
  <2> QED
    BY <1>1, <2>1, <2>2, <2>3, <2>4 DEF Tick, interrupt_ctrl!Clock
<1>2. CASE Next /\ Held
  BY <1>2, StillContexts DEF Held, interruptVars
<1>3. CASE UNCHANGED vars
  BY <1>3, StillContexts DEF vars, interruptVars
<1> QED
  BY <1>1, <1>2, <1>3 DEF Next

(* The whole processor implements the interrupt system of PriorityNest,    *)
(* for a program whose RETINTs are in its routines and do not follow a     *)
(* GETINT: contexts open by priority and close innermost first, and RETINT *)
(* takes the PC to the address that was kept, although it goes through a   *)
(* register that every unit may write and that enable does not hold.       *)
THEOREM ProcessorNests == Spec /\ []ReturnsFromRoutines => NestSpec
<1>1. Init => Nest!NestInit /\ ReturnAddress
  <2>1. ASSUME Init
        PROVE  level = LEVEL_NORMAL /\ ~control.readying_ram /\ control.ram_not_ready
    BY <2>1 DEF Init, interrupt_ctrl!Reset, interrupt_ctrl!LEVEL_NORMAL, LEVEL_NORMAL,
       ram_interface!Reset
  <2> QED
    BY <2>1, NoneOpen DEF Nest!NestInit, ReturnAddress
<1>2. IInv /\ Typed /\ ReturnsFromRoutines /\ ReturnAddress /\ [Next]_vars => ReturnAddress'
  BY StepReturnAddress
<1>3. IInv /\ Typed /\ ReturnsFromRoutines /\ ReturnAddress /\ [Next]_vars
        => [Nest!NestNext]_Nest!nestVars
  BY StepNests DEF NestStep
<1> QED
  BY <1>1, <1>2, <1>3, Invariance, TypesInvariance, PTL DEF Spec, NestSpec, Nest!NestSpec

-----------------------------------------------------------------------------
(* The trap.  The interface compares the address on its bus with the size  *)
(* of the access as long as the access lasts; the controller keeps the     *)
(* request until the CPU updates, when the interface asks for nothing.     *)

Accesses(inst) == Opperand(inst) \in {STR, LOAD} \/ inst \in {PUSH, POP, CALL, RET, ATOM}

(* The base 2 logarithm of the size of the access of the instruction. *)
LogSize ==
    IF level = LEVEL_NORMAL /\ byte_mode THEN 0
    ELSE IF instruction \in {PUSH, POP, CALL, RET} THEN ram_interface!size_used_max
    ELSE ram_interface!size_normal_access

Misaligned ==
    /\ Accesses(instruction) /\ (AccessAddr(instruction) % 2^LogSize) # 0
    /\ Bit(SR, SR_TRAP) /\ Bit(SR, 1)

Trapping ==
    /\ control.instruction_ok /\ control.inst_mem =>
         Accesses(instruction) /\ addr = AccessAddr(instruction)
    /\ Misaligned /\ (control.readying_ram \/ ~control.ram_not_ready) =>
         0 \in int_masked_latched

LEMMA AccessInst == (ram_interface!inst_read \/ ram_interface!inst_write) <=> Accesses(instruction)
BY DEF ram_interface!inst_read, ram_interface!inst_write, Accesses,
       ram_interface!Opperand, Opperand, ram_interface!STR, STR, ram_interface!LOAD, LOAD,
       ram_interface!PUSH, PUSH, ram_interface!POP, POP, ram_interface!CALL, CALL,
       ram_interface!RET, RET, ram_interface!ATOM, ATOM

(* A decoded instruction gives the bus the address of its access. *)
LEMMA AccessOnBus ==
    ASSUME control.instruction_ok, Accesses(instruction)
    PROVE  ram_interface!cpu_addr = AccessAddr(instruction)
<1> USE DEF ram_interface!cpu_addr, AccessAddr, Opperand, ram_interface!Opperand,
            PUSH, CALL, POP, RET, ATOM, STR, LOAD, ram_interface!PUSH, ram_interface!CALL,
            ram_interface!POP, ram_interface!RET, ram_interface!ATOM, ram_interface!STR,
            ram_interface!LOAD, other_register, ram_interface!WordMod, WordMod,
            ram_interface!WordBits, WordBits
<1>1. CASE instruction \in {PUSH, CALL}
  BY <1>1
<1>2. CASE instruction \in {POP, RET}
  BY <1>2
<1>3. CASE instruction = ATOM
  BY <1>3
<1>4. CASE Opperand(instruction) \in {STR, LOAD}
  BY <1>4
<1> QED
  BY <1>1, <1>2, <1>3, <1>4 DEF Accesses

(* The request of interrupt 0 comes from a misaligned access. *)
LEMMA ErrorIsLatched ==
    ASSUME Tick, Trapping, Misaligned, control.instruction_ok, control.inst_mem
    PROVE  0 \in int_masked_latched'
<1>1. ram_interface!size_used = LogSize
  BY DEF ram_interface!size_used, LogSize, ram_interface!StackInst, LEVEL_NORMAL,
     ram_interface!PUSH, PUSH, ram_interface!POP, POP, ram_interface!CALL, CALL,
     ram_interface!RET, RET
<1>2. addr = AccessAddr(instruction)
  BY DEF Trapping
<1>3. ram_interface!alignment_error
  BY <1>1, <1>2, Zenon DEF ram_interface!alignment_error, Misaligned
<1>4. 0 \in used_int /\ 0 \in {i \in Ints : Bit(SR, i + 1)}
  BY <1>3 DEF used_int, Misaligned, Ints
<1>5. 0 \in interrupt_ctrl!int_masked
  BY <1>4 DEF interrupt_ctrl!int_masked
<1> QED
  BY <1>5 DEF Tick, interrupt_ctrl!Clock, interrupt_ctrl!Latch

LEMMA SameAccess ==
    ASSUME UNCHANGED <<registers, level, byte_mode, instruction>>
    PROVE  /\ Misaligned' = Misaligned
           /\ AccessAddr(instruction)' = AccessAddr(instruction)
           /\ Accesses(instruction)' = Accesses(instruction)
<1>1. SR' = SR /\ SP' = SP /\ WR' = WR
  BY DEF SR, SP, WR
<1>2. AccessAddr(instruction)' = AccessAddr(instruction)
  BY <1>1, Zenon DEF AccessAddr
<1>3. LogSize' = LogSize
  BY <1>1, Zenon DEF LogSize, ram_interface!size_normal_access,
     ram_interface!reduced_behaviour_bits
<1> QED
  BY <1>1, <1>2, <1>3, Zenon DEF Misaligned, Accesses

LEMMA StepTrapping ==
    ASSUME IInv, Trapping, [Next]_vars
    PROVE  Trapping'
<1>1. Timing /\ Shape /\ Phases
  BY DEF IInv, Timing
<1>2. CASE UNCHANGED <<registers, level, byte_mode, instruction, control, addr,
                        int_masked_latched>>
  <2>1. UNCHANGED <<registers, level, byte_mode, instruction>>
    BY <1>2
  <2> QED
    BY <1>2, <2>1, SameAccess DEF Trapping
<1>3. CASE Next /\ Tick
  <2>1. ram_interface!Sequence /\ addr' = ram_interface!cpu_addr
    BY <1>3 DEF Tick, ram_interface!Clock
  <2>2. control.ram_not_ready => UNCHANGED <<registers, level, byte_mode>>
    BY <1>1, <1>3, Unmoved
  <2>3. control.ram_not_ready /\ 0 \in int_masked_latched => 0 \in int_masked_latched'
    BY <1>3 DEF Tick, interrupt_ctrl!Clock, interrupt_ctrl!Latch
  <2>4. control.instruction_ok /\ Accesses(instruction) => addr' = AccessAddr(instruction)
    BY <2>1, AccessOnBus
  <2>5. CASE ram_interface!StartAccess
    <3>1. /\ control.instruction_ok /\ Accesses(instruction)
          /\ ~control'.readying_ram /\ control'.ram_not_ready
          /\ UNCHANGED <<registers, level, byte_mode, instruction>>
      BY <1>1, <2>2, <2>5, AccessInst
         DEF ram_interface!StartAccess, Shape, ControlShape, Flags, Phases
    <3> QED
      BY <2>4, <3>1, SameAccess DEF Trapping
  <2>6. CASE ram_interface!AwaitAccess
    <3>1. /\ control.instruction_ok /\ control.inst_mem
          /\ ~control'.readying_ram /\ control'.ram_not_ready
          /\ UNCHANGED <<registers, level, byte_mode, instruction>>
      BY <1>1, <2>2, <2>6
         DEF ram_interface!AwaitAccess, Shape, ControlShape, Flags, Phases
    <3> QED
      BY <2>4, <3>1, SameAccess DEF Trapping
  <2>7. CASE ram_interface!Finish
    <3>1. /\ control.instruction_ok /\ (Accesses(instruction) => control.inst_mem)
          /\ ~control'.instruction_ok
          /\ UNCHANGED <<registers, level, byte_mode, instruction>>
      BY <1>1, <2>2, <2>7, AccessInst
         DEF ram_interface!Finish, Shape, ControlShape, Flags, Phases
    <3>2. Misaligned => 0 \in int_masked_latched'
      BY <1>3, <3>1, ErrorIsLatched DEF Misaligned
    <3> QED
      BY <3>1, <3>2, SameAccess DEF Trapping
  <2>8. CASE ram_interface!Update
    <3>1. /\ control.readying_ram /\ control.ram_not_ready
          /\ ~control'.instruction_ok
          /\ UNCHANGED <<registers, level, byte_mode, instruction>>
      BY <1>1, <2>2, <2>8 DEF ram_interface!Update, Shape, ControlShape, Flags, Phases
    <3> QED
      BY <2>3, <3>1, SameAccess DEF Trapping
  <2>9. ASSUME ~control'.inst_mem, ~control'.readying_ram, control'.ram_not_ready
        PROVE  Trapping'
    BY <2>9 DEF Trapping
  <2>10. CASE ram_interface!StartFetch
    BY <1>1, <2>9, <2>10 DEF ram_interface!StartFetch, ram_interface!Idle,
       Shape, ControlShape, Flags, Phases
  <2>11. CASE ram_interface!CountDelay
    BY <1>1, <2>9, <2>11 DEF ram_interface!CountDelay, ram_interface!Idle,
       Shape, ControlShape, Flags, Phases
  <2>12. CASE ram_interface!AwaitFetch
    BY <1>1, <2>9, <2>12 DEF ram_interface!AwaitFetch, ram_interface!Idle,
       Shape, ControlShape, Flags, Phases
  <2>13. CASE ram_interface!Decode
    BY <1>1, <2>9, <2>13 DEF ram_interface!Decode, ram_interface!Idle,
       Shape, ControlShape, Flags, Phases
  <2> QED
    BY <2>1, <2>5, <2>6, <2>7, <2>8, <2>10, <2>11, <2>12, <2>13 DEF ram_interface!Sequence
<1> QED
  BY <1>2, <1>3 DEF Next, Held, vars, cpuVars, memoryVars, interruptVars

(* The size of the access, for a size that a word has, is the one that     *)
(* README.md gives.                                                        *)
LEMMA SizeIsLog ==
    ASSUME Registers, executed = instruction, AccessSize <= WordBytes
    PROVE  AccessSize = 2^LogSize
<1> DEFINE m == ram_interface!size_used_max
<1>1. m \in 0..3 /\ WordBytes = 2^m
  <2>1. \E k \in 0..3 : 2^k = WordBytes
    <3>1. 2^0 = 1 /\ 2^1 = 2 /\ 2^2 = 4 /\ 2^3 = 8
      OBVIOUS
    <3> QED
      BY <3>1, RtlAssumption
  <2> QED
    BY <2>1, Zenon DEF ram_interface!size_used_max
<1>2. SR \in Nat /\ SR < WordMod /\ Reduced \in 0..255
  <2>1. SR \in Word
    BY RegisterTypes
  <2> QED
    BY <2>1, WordWidth DEF Word, Reduced
<1>3. 2^0 = 1
  OBVIOUS
<1>4. CASE level = LEVEL_NORMAL /\ byte_mode
  BY <1>3, <1>4, Zenon DEF AccessSize, LogSize
<1>5. CASE ~(level = LEVEL_NORMAL /\ byte_mode) /\ instruction \in {PUSH, POP, CALL, RET}
  BY <1>1, <1>5, Zenon DEF AccessSize, LogSize
<1>6. CASE ~(level = LEVEL_NORMAL /\ byte_mode) /\ instruction \notin {PUSH, POP, CALL, RET}
  <2>1. ram_interface!reduced_behaviour_bits = Reduced
    <3>1. CASE WordBytes = 1
      <4>1. WordMod = 256
        BY <3>1 DEF WordMod, WordBits
      <4>2. Reduced = 0
        BY <1>2, <4>1 DEF Reduced
      <4> QED
        BY <3>1, <4>2 DEF ram_interface!reduced_behaviour_bits
    <3>2. CASE WordBytes # 1
      BY <3>2 DEF ram_interface!reduced_behaviour_bits, Reduced
    <3> QED
      BY <3>1, <3>2
  <2>2. CASE Reduced = 0
    BY <1>1, <1>6, <2>1, <2>2, Zenon DEF AccessSize, LogSize, ram_interface!size_normal_access
  <2>3. CASE Reduced # 0
    <3> DEFINE r == Reduced - 1
    <3>1. AccessSize = 2^r /\ r \in Nat
      <4>1. executed \notin {PUSH, POP, CALL, RET}
        BY <1>6
      <4>2. AccessSize = 2^r
        BY <1>6, <2>3, <4>1 DEF AccessSize
      <4> QED
        BY <1>2, <2>3, <4>2
    <3>2. r <= m
      <4> SUFFICES ASSUME r > m
                   PROVE  FALSE
        BY <1>1, <3>1
      <4>1. 2^(m + 1) <= 2^r /\ 2^(m + 1) = 2 * 2^m /\ 2^m \in Nat \ {0}
        BY <1>1, <3>1, PowMonotone, PowStep, PowPositive
      <4>2. 2^r <= 2^m
        BY <1>1, <3>1, Zenon
      <4>3. 2^r \in Nat
        BY <3>1, PowType
      <4> DEFINE p == 2^m
                 q == 2^r
                 t == 2^(m + 1)
      <4> HIDE DEF p, q, t
      <4> QED
        BY <4>1, <4>2, <4>3 DEF p, q, t
    <3>3. ram_interface!size_normal_access = (r % ram_interface!SizeMod)
      BY <2>1, <2>3, Zenon DEF ram_interface!size_normal_access
    <3>4. (r % ram_interface!SizeMod) = r
      <4>1. ram_interface!SizeMod = 2^(m + 1)
        BY DEF ram_interface!SizeMod
      <4>2. 2^(m + 1) > m /\ 2^(m + 1) \in Nat
        <5>1. 2^(0 + 1) = 2 /\ 2^(1 + 1) = 4 /\ 2^(2 + 1) = 8 /\ 2^(3 + 1) = 16
          OBVIOUS
        <5>2. m \in {0, 1, 2, 3}
          BY <1>1
        <5> HIDE DEF m
        <5>3. CASE m = 0
          BY <5>1, <5>3
        <5>4. CASE m = 1
          BY <5>1, <5>4
        <5>5. CASE m = 2
          BY <5>1, <5>5
        <5>6. CASE m = 3
          BY <5>1, <5>6
        <5> QED
          BY <5>2, <5>3, <5>4, <5>5, <5>6
      <4> HIDE DEF r, m
      <4> DEFINE t == 2^(m + 1)
      <4>3. t \in Nat /\ t > r
        BY <1>1, <3>1, <3>2, <4>2
      <4> HIDE DEF t
      <4>4. (r % t) = r
        BY <3>1, <4>3
      <4> QED
        BY <4>1, <4>4, Zenon DEF t
    <3> QED
      BY <1>6, <3>1, <3>3, <3>4, Zenon DEF LogSize
  <2> QED
    BY <2>2, <2>3
<1> QED
  BY <1>4, <1>5, <1>6

(* At the update the request of interrupt 0 goes before all the others. *)
LEMMA TrapStep ==
    ASSUME IInv, Typed, Trapping, Next,
           ~control.ram_not_ready, control'.ram_not_ready,
           Accesses(executed), AccessSize <= WordBytes,
           (AccessAddr(executed) % AccessSize) # 0,
           Bit(SR, SR_TRAP), Bit(SR, 1), level # 0
    PROVE  level' = 0 /\ addr_memory'[0] = PC /\ PC' = routines[0]
<1>1. Tick /\ executed = instruction
  BY DEF Next, Held, memoryVars, IInv, InstructionAtPC
<1>2. 0 \in int_masked_latched
  <2>1. AccessSize = 2^LogSize
    BY <1>1, SizeIsLog DEF Typed
  <2>2. Misaligned
    BY <1>1, <2>1, Zenon DEF Misaligned
  <2> QED
    BY <2>2 DEF Trapping
<1>3. interrupt_ctrl!target_level = 0 /\ interrupt_ctrl!new_int
  BY <1>2 DEF interrupt_ctrl!target_level, interrupt_ctrl!new_int, Typed, Controller
<1>4. interrupt_ctrl!softint_request = {}
  <2>1. \A n \in 0..3 : executed # 252 + n
    BY <1>1 DEF Accesses, Opperand, STR, LOAD, PUSH, POP, CALL, RET, ATOM, Typed, Registers, Byte
  <2> QED
    BY <2>1 DEF interrupt_ctrl!softint_request, interrupt_ctrl!SOFTINT, interrupt_ctrl!Ints
<1>5. interrupt_ctrl!Enter
  BY <1>1, <1>3 DEF Tick, interrupt_ctrl!Clock, interrupt_ctrl!Return, interrupt_ctrl!Returning,
     interrupt_ctrl!Stay, interrupt_ctrl!Redirect
<1>6. level' = 0 /\ addr_memory' = [addr_memory EXCEPT ![0] = PC]
  BY <1>3, <1>4, <1>5, Zenon DEF interrupt_ctrl!Enter
<1>7. addr_memory'[0] = PC
  BY <1>6 DEF Typed, Controller, Ints
<1>8. registers' = [registers EXCEPT ![PC_REG] = routines[0]]
  BY <1>1, <1>3 DEF Tick, UpdateRegisters, TakeInterrupt, interrupt_ctrl!out_routine
<1>9. PC' = routines[0]
  BY <1>8 DEF PC, PC_REG, Typed, Registers
<1> QED
  BY <1>6, <1>7, <1>9

(* A misaligned access of any instruction, size that a word has, or stack, *)
(* made with the trap enabled outside of interrupt 0, goes to the routine  *)
(* of interrupt 0, which will return to it, whatever other requests come.  *)
THEOREM MisalignedIsTrapped == Spec /\ []ReturnsFromRoutines => TrapTaken
<1>1. Init => Trapping
  BY DEF Init, ram_interface!Reset, Trapping
<1>2. IInv /\ Trapping /\ [Next]_vars => Trapping'
  BY StepTrapping
<1>3. IInv /\ Typed /\ Trapping /\ [Next]_vars =>
        [ /\ ~control.ram_not_ready /\ control'.ram_not_ready
          /\ Opperand(executed) \in {STR, LOAD} \/ executed \in {PUSH, POP, CALL, RET, ATOM}
          /\ AccessSize <= WordBytes /\ AccessAddr(executed) % AccessSize # 0
          /\ Bit(SR, SR_TRAP) /\ Bit(SR, 1) /\ level # 0
          => level' = 0 /\ addr_memory'[0] = PC /\ PC' = routines[0] ]_vars
  BY TrapStep DEF Accesses
<1> QED
  BY <1>1, <1>2, <1>3, Invariance, TypesInvariance, PTL DEF Spec, TrapTaken

-----------------------------------------------------------------------------
(* Memory accesses. *)

(* The bytes of an aligned access are in one word, one after the other. *)
LEMMA InOneWord ==
    ASSUME NEW a \in Nat, NEW k \in 0..3, 2^k <= WordBytes, (a % 2^k) = 0, NEW j \in 0..(2^k - 1)
    PROVE  /\ (a + j) \div WordBytes = a \div WordBytes
           /\ ((a + j) % WordBytes) = (a % WordBytes) + j
           /\ (a % WordBytes) + 2^k <= WordBytes
<1>1. 2^0 = 1 /\ 2^1 = 2 /\ 2^2 = 4 /\ 2^3 = 8
  OBVIOUS
<1>2. WordBytes \in {1, 2, 4, 8} /\ k \in {0, 1, 2, 3}
  BY RtlAssumption
<1> DEFINE n == 2^k
<1>3. n \in {1, 2, 4, 8}
  <2>1. CASE k = 0
    BY <1>1, <2>1
  <2>2. CASE k = 1
    BY <1>1, <2>2
  <2>3. CASE k = 2
    BY <1>1, <2>3
  <2>4. CASE k = 3
    BY <1>1, <2>4
  <2> QED
    BY <1>2, <2>1, <2>2, <2>3, <2>4
<1>4. n <= WordBytes /\ (a % n) = 0 /\ j \in Nat /\ j < n
  BY <1>3
<1> HIDE DEF n
<1> SUFFICES /\ (a + j) \div WordBytes = a \div WordBytes
             /\ ((a + j) % WordBytes) = (a % WordBytes) + j
             /\ (a % WordBytes) + n <= WordBytes
  BY DEF n
<1>5. CASE WordBytes = 1
  BY <1>3, <1>4, <1>5
<1>6. CASE WordBytes = 2
  <2>1. CASE n = 1
    BY <1>4, <1>6, <2>1
  <2>2. CASE n = 2
    BY <1>4, <1>6, <2>2
  <2> QED
    BY <1>3, <1>4, <1>6, <2>1, <2>2
<1>7. CASE WordBytes = 4
  <2>1. CASE n = 1
    BY <1>4, <1>7, <2>1
  <2>2. CASE n = 2
    BY <1>4, <1>7, <2>2
  <2>3. CASE n = 4
    BY <1>4, <1>7, <2>3
  <2> QED
    BY <1>3, <1>4, <1>7, <2>1, <2>2, <2>3
<1>8. CASE WordBytes = 8
  <2>1. CASE n = 1
    BY <1>4, <1>8, <2>1
  <2>2. CASE n = 2
    BY <1>4, <1>8, <2>2
  <2>3. CASE n = 4
    BY <1>4, <1>8, <2>3
  <2>4. CASE n = 8
    BY <1>4, <1>8, <2>4
  <2> QED
    BY <1>3, <1>8, <2>1, <2>2, <2>3, <2>4
<1> QED
  BY <1>2, <1>5, <1>6, <1>7, <1>8

(* An address of the memory is in one of its words. *)
LEMMA IndexInRam ==
    ASSUME NEW a \in 0..(RamSize - 1)
    PROVE  WordIndex(a) \in 0..(RamWords - 1)
<1> DEFINE k == (a % WordBytes)
           n == RamSize \div WordBytes
           q == a \div WordBytes
<1>1. /\ WordBytes \in Nat \ {0} /\ RamSize \in Nat /\ RamSize % WordBytes = 0
      /\ a \in Nat /\ a < RamSize
  BY WordWidth, RtlAssumption, WholeWords
<1>2. /\ n \in Nat /\ RamSize = WordBytes * n
      /\ q \in Nat /\ k \in 0..(WordBytes - 1) /\ a = WordBytes * q + k
  <2>1. n \in Nat /\ RamSize = WordBytes * n + (RamSize % WordBytes)
    BY <1>1, DivMod, Zenon
  <2>2. WordBytes * n \in Nat
    BY <1>1, <2>1
  <2>3. q \in Nat /\ k \in 0..(WordBytes - 1) /\ a = WordBytes * q + k
    BY <1>1, DivMod, Zenon
  <2> HIDE DEF n, q, k
  <2> QED
    BY <1>1, <2>1, <2>2, <2>3
<1> HIDE DEF n, q, k
<1>3. q < n
  <2>1. SUFFICES ASSUME q >= n PROVE FALSE
    BY <1>2
  <2>2. q = n + (q - n) /\ q - n \in Nat
    BY <1>2, <2>1
  <2>3. WordBytes * q = WordBytes * n + WordBytes * (q - n) /\ WordBytes * (q - n) \in Nat
    BY <1>1, <1>2, <2>2
  <2> QED
    BY <1>1, <1>2, <2>3
<1> QED
  BY <1>2, <1>3 DEF WordIndex, RamWords, q, n

(* Where the bytes of an access are in its word. *)
LEMMA Bytes ==
    ASSUME NEW a \in Nat, NEW k \in 0..3, 2^k <= WordBytes, (a % 2^k) = 0,
           NEW j \in 0..(2^k - 1), NEW i \in 0..7
    PROVE  /\ WordIndex(a + j) = WordIndex(a)
           /\ FirstBit(a) \in Nat /\ FirstBit(a) < WordBits
           /\ 8 * ((a + j) % WordBytes) = FirstBit(a) + 8 * j
           /\ FirstBit(a) + 8 * j + i \in BitsOf(a, k)
           /\ FirstBit(a) + 8 * j + i \in FirstBit(a)..(WordBits - 1)
           /\ FirstBit(a) + 8 * 2^k <= WordBits
<1> DEFINE r == (a % WordBytes)
           n == 2^k
<1>1. /\ (a + j) \div WordBytes = a \div WordBytes
      /\ ((a + j) % WordBytes) = r + j
      /\ r + n <= WordBytes
  BY InOneWord
<1>2. n \in Nat \ {0} /\ r \in Nat /\ r < WordBytes
  <2>1. n \in Nat \ {0}
    BY PowPositive
  <2>2. r \in Nat /\ r < WordBytes
    BY WordWidth
  <2> QED
    BY <2>1, <2>2
<1>3. j \in Nat /\ j < n
  BY <1>2
<1>4. BitsOf(a, k) = {b \in 0..(WordBits - 1) : b >= 8 * r /\ b < 8 * r + 8 * n} /\ FirstBit(a) = 8 * r
  BY DEF BitsOf, FirstBit
<1> HIDE DEF r, n
<1>5. 8 * r + 8 * j + i \in 8 * r..(WordBits - 1) /\ 8 * r + 8 * j + i < 8 * r + 8 * n
  BY <1>1, <1>2, <1>3, WordWidth DEF WordBits
<1>6. 8 * r + 8 * n <= WordBits /\ 8 * r < WordBits /\ 8 * r \in Nat /\ 8 * (r + j) = 8 * r + 8 * j
  BY <1>1, <1>2, <1>3, WordWidth DEF WordBits
<1>7. 8 * r + 8 * j + i \in BitsOf(a, k)
  BY <1>4, <1>5, <1>6
<1> QED
  BY <1>1, <1>4, <1>5, <1>6, <1>7 DEF WordIndex, n

(* What the reader takes out of the word of an access of 2^k bytes at a. *)
Taken(a, k) == ShiftRight(FromBits(Bits(WordAt(a)) \cap BitsOf(a, k)), FirstBit(a))

(* What the reader takes from a word, as a sum of bytes. *)
LEMMA TakenBytes ==
    ASSUME Memories, NEW a \in Nat, NEW k \in 0..3, 2^k <= WordBytes, (a % 2^k) = 0,
           a + 2^k <= RamSize
    PROVE  /\ Taken(a, k) \in 0..(2^(8 * 2^k) - 1)
           /\ \A j \in 0..(2^k - 1) : ((Taken(a, k) \div 2^(8 * j)) % 256) = RamByte(a + j)
<1> DEFINE n == 2^k
           s == FirstBit(a)
           w == ram[WordIndex(a)]
           S == Bits(w) \cap BitsOf(a, k)
           x == FromBits(S)
           v == x \div 2^s
<1>1. n \in Nat \ {0} /\ a \in 0..(RamSize - 1) /\ 0 \in 0..7 /\ 0 \in 0..(n - 1)
  BY PowPositive, RtlAssumption
<1>2. s \in Nat /\ s < WordBits /\ s + 8 * n <= WordBits
  BY <1>1, Bytes
<1>3. WordAt(a) = w /\ w \in Nat
  <2>1. WordIndex(a) \in 0..(RamWords - 1)
    BY <1>1, IndexInRam
  <2> QED
    BY <2>1 DEF WordAt, Memories, Word
<1>4. Taken(a, k) = v
  <2>1. ~(s >= HostBits)
    BY <1>2, WordWidth
  <2>2. Taken(a, k) = ShiftRight(x, s)
    BY <1>3, Zenon DEF Taken
  <2> HIDE DEF x, s
  <2> QED
    BY <2>1, <2>2 DEF ShiftRight
<1>5. S \in SUBSET (0..(HostBits - 1)) /\ S \in SUBSET (0..((s + 8 * n) - 1))
  <2>1. S \in SUBSET (0..(HostBits - 1))
    BY BitsType
  <2>2. \A b \in BitsOf(a, k) : b \in 0..((s + 8 * n) - 1)
    BY <1>1, <1>2, WordWidth DEF BitsOf
  <2> QED
    BY <2>1, <2>2
<1>6. Bits(x) = S /\ x \in 0..(2^(s + 8 * n) - 1)
  <2>1. s + 8 * n \in Nat
    BY <1>1, <1>2
  <2> DEFINE t == s + 8 * n
  <2> HIDE DEF S, t
  <2> QED
    BY <1>5, <2>1, BitsOfFromBits, FromBitsBound DEF t
<1>7. 2^s \in Nat \ {0} /\ 2^(8 * n) \in Nat \ {0} /\ 2^(s + 8 * n) = 2^s * 2^(8 * n)
  <2> DEFINE t == 8 * n
  <2>1. t \in Nat
    BY <1>1
  <2> HIDE DEF t
  <2> QED
    BY <1>2, <2>1, PowPositive, PowAdd, Zenon DEF t
<1>8. v \in 0..(2^(8 * n) - 1)
  <2> DEFINE p == 2^s
             q == 2^(8 * n)
  <2>1. p \in Nat \ {0} /\ q \in Nat \ {0} /\ x \in Nat /\ x < p * q
    BY <1>6, <1>7
  <2>2. v = x \div p
    OBVIOUS
  <2> HIDE DEF p, q, x, v
  <2>3. v \in Nat /\ x = p * v + (x % p) /\ (x % p) \in 0..(p - 1)
    BY <2>1, <2>2, DivMod
  <2>4. v < q
    <3> SUFFICES ASSUME v >= q PROVE FALSE
      BY <2>1, <2>3
    <3>1. v = q + (v - q) /\ v - q \in Nat
      BY <2>1, <2>3
    <3>2. p * v = p * q + p * (v - q) /\ p * (v - q) \in Nat /\ p * q \in Nat
      BY <2>1, <3>1
    <3> QED
      BY <2>1, <2>3, <3>2
  <2> QED
    BY <2>1, <2>3, <2>4 DEF q
<1>9. ASSUME NEW j \in 0..(n - 1)
      PROVE  ((v \div 2^(8 * j)) % 256) = RamByte(a + j)
  <2> DEFINE t == 8 * j
             u == s + t
  <2>1. j \in Nat /\ t \in Nat /\ u \in Nat /\ a + j \in 0..(RamSize - 1)
    BY <1>1, <1>2, RtlAssumption
  <2>2. \A i \in 0..7 : /\ u + i \in BitsOf(a, k) /\ u + i \in 0..(HostBits - 1)
                        /\ WordIndex(a + j) = WordIndex(a) /\ 8 * ((a + j) % WordBytes) = u
    <3> TAKE i \in 0..7
    <3>1. /\ FirstBit(a) + 8 * j + i \in BitsOf(a, k)
          /\ FirstBit(a) + 8 * j + i \in FirstBit(a)..(WordBits - 1)
          /\ WordIndex(a + j) = WordIndex(a)
          /\ 8 * ((a + j) % WordBytes) = FirstBit(a) + 8 * j
      BY Bytes
    <3> QED
      BY <1>2, <2>1, <3>1, WordWidth
  <2>3. RamByte(a + j) = ((w \div 2^u) % 256)
    BY <1>1, <2>2 DEF RamByte, WordIndex
  <2> HIDE DEF S, x, w, s, t, u
  <2>4. v \in Nat /\ v \div 2^t \in Nat /\ w \div 2^u \in Nat
    <3>1. 2^t \in Nat \ {0} /\ 2^u \in Nat \ {0} /\ v \in Nat
      BY <1>7, <1>8, <2>1, PowPositive
    <3> HIDE DEF v
    <3> QED
      BY <1>3, <3>1, DivMod
  <2>5. ASSUME NEW i \in 0..7
        PROVE  Bit(v \div 2^t, i) <=> Bit(w \div 2^u, i)
    <3>1. u + i \in Bits(x) <=> u + i \in Bits(w)
      BY <1>6, <2>2 DEF S
    <3>2. Bit(x, u + i) <=> Bit(w, u + i)
      BY <2>2, <3>1 DEF Bits
    <3>3. x \in Nat /\ i \in Nat /\ i + t \in Nat /\ (i + t) + s = u + i /\ i + u = u + i
      BY <1>2, <1>6, <2>1 DEF u
    <3>4. Bit(w \div 2^u, i) <=> Bit(w, u + i)
      BY <1>3, <2>1, <3>3, BitShift
    <3>5. Bit(v \div 2^t, i) <=> Bit(v, i + t)
      <4> HIDE DEF v
      <4> QED
        BY <2>1, <2>4, <3>3, BitShift
    <3>6. Bit(v, i + t) <=> Bit(x, u + i)
      <4> DEFINE y == i + t
      <4>1. y \in Nat /\ y + s = u + i
        BY <3>3
      <4> HIDE DEF y
      <4>2. Bit(x \div 2^s, y) <=> Bit(x, y + s)
        BY <1>2, <3>3, <4>1, BitShift
      <4> QED
        BY <4>1, <4>2 DEF y
    <3> QED
      BY <3>2, <3>4, <3>5, <3>6
  <2> HIDE DEF v
  <2>6. ((v \div 2^t) % 256) = ((w \div 2^u) % 256)
    BY <2>4, <2>5, BytesByBits
  <2> QED
    BY <2>3, <2>6 DEF t
<1> QED
  BY <1>4, <1>8, <1>9

(* The memory has the word v at the 2^k bytes from a. *)
InRam(v, a, k) ==
    Bits(ram[WordIndex(a)]) \cap BitsOf(a, k) =
        Bits(ShiftLeft(v, FirstBit(a), WordBits)) \cap BitsOf(a, k)

(* What the writer puts in the word of an access of 2^k bytes at a. *)
LEMMA PutBytes ==
    ASSUME Memories, NEW a \in Nat, NEW k \in 0..3, 2^k <= WordBytes, (a % 2^k) = 0,
           a + 2^k <= RamSize, NEW v \in Word, InRam(v, a, k)
    PROVE  \A j \in 0..(2^k - 1) : RamByte(a + j) = (ShiftRight(v, 8 * j) % 256)
<1> TAKE j \in 0..(2^k - 1)
<1> DEFINE n == 2^k
           s == FirstBit(a)
           w == ram[WordIndex(a)]
           x == ShiftLeft(v, s, WordBits)
           t == 8 * j
           u == s + t
<1>1. n \in Nat \ {0} /\ a \in 0..(RamSize - 1) /\ 0 \in 0..7 /\ j \in Nat /\ t \in Nat /\ j < n
  BY PowPositive, RtlAssumption
<1>2. s \in Nat /\ s < WordBits /\ s + 8 * n <= WordBits /\ u \in Nat /\ v \in Nat /\ WordBits \in Nat
  <2>1. FirstBit(a) \in Nat /\ FirstBit(a) < WordBits /\ FirstBit(a) + 8 * 2^k <= WordBits
    BY <1>1, Bytes
  <2>2. v \in Nat /\ WordBits \in Nat
    BY WordWidth DEF Word
  <2>3. u \in Nat
    BY <1>1, <2>1
  <2> QED
    BY <2>1, <2>2, <2>3
<1>3. w \in Nat
  BY <1>1, IndexInRam DEF Memories, Word
<1>4. \A i \in 0..7 : /\ u + i \in BitsOf(a, k) /\ u + i \in s..(WordBits - 1)
                      /\ u + i \in 0..(HostBits - 1)
                      /\ WordIndex(a + j) = WordIndex(a) /\ 8 * ((a + j) % WordBytes) = u
  <2> TAKE i \in 0..7
  <2>1. /\ FirstBit(a) + 8 * j + i \in BitsOf(a, k)
        /\ FirstBit(a) + 8 * j + i \in FirstBit(a)..(WordBits - 1)
        /\ WordIndex(a + j) = WordIndex(a)
        /\ 8 * ((a + j) % WordBytes) = FirstBit(a) + 8 * j
    BY Bytes
  <2> QED
    BY <1>2, <2>1, WordWidth
<1>5. RamByte(a + j) = ((w \div 2^u) % 256)
  BY <1>1, <1>4 DEF RamByte, WordIndex
<1>6. ShiftRight(v, t) = v \div 2^t
  <2>1. ~(t >= HostBits)
    BY <1>1, <1>2, WordWidth
  <2> QED
    BY <2>1 DEF ShiftRight
<1>7. Bits(w) \cap BitsOf(a, k) = Bits(x) \cap BitsOf(a, k)
  BY DEF InRam
<1> HIDE DEF w, s, t, u, x
<1>8. v \div 2^t \in Nat /\ w \div 2^u \in Nat
  <2>1. 2^t \in Nat \ {0} /\ 2^u \in Nat \ {0}
    BY <1>1, <1>2, PowPositive
  <2> QED
    BY <1>2, <1>3, <2>1, DivMod
<1>9. ASSUME NEW i \in 0..7
      PROVE  Bit(w \div 2^u, i) <=> Bit(v \div 2^t, i)
  <2> DEFINE b == u + i
  <2>1. b \in Bits(w) <=> b \in Bits(x)
    BY <1>4, <1>7
  <2>2. Bit(w, b) <=> Bit(x, b)
    BY <1>4, <2>1 DEF Bits
  <2>3. i \in Nat /\ b \in s..(WordBits - 1) /\ s \in 0..(WordBits - 1) /\ i + u = b /\ b - s = i + t
    BY <1>1, <1>2, <1>4 DEF u
  <2> HIDE DEF b
  <2>4. Bit(x, b) <=> Bit(v, b - s)
    BY <1>2, <2>3, WordWidth, BitOfShiftLeft DEF x
  <2>5. Bit(w \div 2^u, i) <=> Bit(w, i + u)
    BY <1>2, <1>3, <2>3, BitShift
  <2>6. Bit(v \div 2^t, i) <=> Bit(v, i + t)
    BY <1>1, <1>2, <2>3, BitShift
  <2> QED
    BY <2>2, <2>3, <2>4, <2>5, <2>6
<1>10. ((w \div 2^u) % 256) = ((v \div 2^t) % 256)
  BY <1>8, <1>9, BytesByBits
<1> QED
  BY <1>5, <1>6, <1>10 DEF t

(* What an access leaves: the reader has what is at the address of a load, *)
(* and the memory what is stored.                                          *)

Loads(inst) == Opperand(inst) = LOAD \/ inst = POP

(* The instruction is over, or is about to be. *)
Ready == control.readying_ram \/ ~control.ram_not_ready

Loaded == Taken(AccessAddr(instruction), LogSize)

LoadOnBus ==
    Loads(instruction) =>
        /\ control.instruction_ok /\ control.inst_mem =>
             /\ reader.new_request_r => WordOnBus
             /\ reader.read_ready => reader.data_in_cpu = Loaded
        /\ Ready => reader.data_in_cpu = Loaded

IsStored(word) ==
    Bits(word) \cap StoredBits =
        Bits(ShiftLeft(StoredValue, FirstBit(Stored), WordBits)) \cap StoredBits

(* ATOM, which reads first, may be over before it has written. *)
StoredInRam ==
    Stores(instruction) /\ WordIndex(Stored) \in DOMAIN ram =>
        /\ writer.write_ready => IsStored(writer.data_out_ram)
        /\ Ready /\ instruction # ATOM => IsStored(ram[WordIndex(Stored)])

(* The kinds of accesses exclude one another. *)
LEMMA Kinds ==
    /\ Loads(instruction) => /\ Accesses(instruction) /\ ~Stores(instruction)
                             /\ ram_interface!inst_read /\ ~ram_interface!inst_write
    /\ Stores(instruction) /\ instruction # ATOM =>
         /\ Accesses(instruction) /\ ~Loads(instruction)
         /\ ram_interface!inst_write /\ ~ram_interface!inst_read
BY DEF Loads, Stores, Accesses, ram_interface!inst_read, ram_interface!inst_write,
       Opperand, ram_interface!Opperand, STR, ram_interface!STR, LOAD, ram_interface!LOAD,
       PUSH, ram_interface!PUSH, POP, ram_interface!POP, CALL, ram_interface!CALL,
       RET, ram_interface!RET, ATOM, ram_interface!ATOM

(* How an instruction comes to its end. *)
LEMMA BecomesReady ==
    ASSUME Timing, Tick
    PROVE  /\ Ready' => /\ instruction' = instruction /\ control.ram_not_ready
                        /\ \/ ram_interface!Finish
                           \/ control.readying_ram /\ ~control.instruction_ok
           /\ control'.instruction_ok /\ control'.inst_mem =>
                control.instruction_ok /\ instruction' = instruction /\ control.ram_not_ready
<1>1. Shape /\ Phases /\ ram_interface!Sequence
  BY DEF Timing, Tick, ram_interface!Clock
<1>2. control'.instruction_ok /\ control'.inst_mem =>
        control.instruction_ok /\ instruction' = instruction /\ control.ram_not_ready
  BY <1>1, Sequencer DEF Phases, Fetching
<1> USE DEF Ready, Shape, ControlShape, Flags, Phases
<1>3. CASE ram_interface!StartAccess
  BY <1>1, <1>2, <1>3 DEF ram_interface!StartAccess
<1>4. CASE ram_interface!AwaitAccess
  BY <1>1, <1>2, <1>4 DEF ram_interface!AwaitAccess
<1>5. CASE ram_interface!Finish
  <2>1. instruction' = instruction /\ control.ram_not_ready
    BY <1>1, <1>5 DEF ram_interface!Finish
  <2> QED
    BY <1>2, <1>5, <2>1
<1>6. CASE ram_interface!Update
  BY <1>1, <1>2, <1>6 DEF ram_interface!Update
<1>7. CASE ram_interface!StartFetch
  BY <1>1, <1>2, <1>7 DEF ram_interface!StartFetch, ram_interface!Idle
<1>8. CASE ram_interface!CountDelay
  BY <1>1, <1>2, <1>8 DEF ram_interface!CountDelay, ram_interface!Idle
<1>9. CASE ram_interface!AwaitFetch
  BY <1>1, <1>2, <1>9 DEF ram_interface!AwaitFetch, ram_interface!Idle
<1>10. CASE ram_interface!Decode
  BY <1>1, <1>2, <1>10 DEF ram_interface!Decode, ram_interface!Idle
<1> QED
  BY <1>1, <1>3, <1>4, <1>5, <1>6, <1>7, <1>8, <1>9, <1>10 DEF ram_interface!Sequence

(* An access does not change what it is to take, unless it stores. *)
LEMMA SameLoad ==
    ASSUME UNCHANGED <<registers, level, byte_mode, instruction, ram>>
    PROVE  Loaded' = Loaded /\ AccessAddr(instruction)' = AccessAddr(instruction)
<1>1. SR' = SR /\ AccessAddr(instruction)' = AccessAddr(instruction)
  BY SameAccess DEF SR
<1>2. LogSize' = LogSize
  BY <1>1, Zenon DEF LogSize, ram_interface!size_normal_access,
     ram_interface!reduced_behaviour_bits
<1> QED
  BY <1>1, <1>2 DEF Loaded, Taken, WordAt, WordIndex, FirstBit, BitsOf

(* The reader takes the bytes of the access out of the word. *)
LEMMA ReaderTakes ==
    ASSUME Tick, control.instruction_ok, Loads(instruction), reader.new_request_r,
           addr = AccessAddr(instruction), WordOnBus
    PROVE  reader'.data_in_cpu = Loaded
<1> DEFINE a == AccessAddr(instruction)
<1>1. ram_interface!cpu_addr = a
  BY Kinds, AccessOnBus
<1>2. data_in = WordAt(a)
  BY DEF data_in, WordAt, WordIndex, WordOnBus
<1>3. ram_interface!size_used = LogSize
  BY DEF ram_interface!size_used, LogSize, ram_interface!StackInst, LEVEL_NORMAL,
     ram_interface!PUSH, PUSH, ram_interface!POP, POP, ram_interface!CALL, CALL,
     ram_interface!RET, RET
<1> HIDE DEF a
<1>4. ram_interface!shift = FirstBit(a) /\ ram_interface!mask = BitsOf(a, LogSize)
  BY <1>1, <1>3, SameWords
     DEF ram_interface!shift, ram_interface!mask, FirstBit, BitsOf
<1>5. reader'.data_in_cpu =
        ram_interface!ShiftRight(ram_interface!FromBits(ram_interface!Bits(data_in)
                                                         \cap ram_interface!mask),
                                 ram_interface!shift)
  BY DEF Tick, ram_interface!Clock, ram_interface!Read
<1>6. ram_interface!Bits(data_in) = Bits(WordAt(a))
  BY <1>2, SameWords
<1>7. reader'.data_in_cpu =
        ram_interface!ShiftRight(ram_interface!FromBits(Bits(WordAt(a)) \cap BitsOf(a, LogSize)),
                                 FirstBit(a))
  BY <1>4, <1>5, <1>6, Zenon
<1>8. reader'.data_in_cpu = ShiftRight(FromBits(Bits(WordAt(a)) \cap BitsOf(a, LogSize)), FirstBit(a))
  BY <1>7, SameWords
<1> QED
  BY <1>8, Zenon DEF Loaded, Taken, a

(* Through every clock, a load has on the bus what is at its address. *)
LEMMA StepLoadOnBus ==
    ASSUME IInv, Trapping, LoadOnBus, [Next]_vars
    PROVE  LoadOnBus'
<1>1. Timing /\ Shape /\ Phases /\ Pipeline /\ WriteOnBus
  BY DEF IInv, Timing
<1>2. Loads(instruction) => ~writer.write_ready
  BY <1>1, Kinds DEF WriteOnBus
<1>3. CASE UNCHANGED vars
  <2>1. /\ UNCHANGED <<registers, level, byte_mode, instruction, ram>>
        /\ UNCHANGED <<control, reader, addr, data_out_array>>
    BY <1>3 DEF vars, cpuVars, memoryVars, interruptVars
  <2> QED
    BY <2>1, SameLoad DEF LoadOnBus, Loads, Ready, WordOnBus, WordIndex
<1>4. CASE Next /\ Held
  <2> SUFFICES ASSUME Loads(instruction)
               PROVE  LoadOnBus'
    BY <1>4 DEF Held, memoryVars, LoadOnBus, Loads
  <2>1. /\ UNCHANGED <<registers, level, byte_mode, instruction, ram>>
        /\ UNCHANGED <<control, reader, addr>>
    BY <1>2, <1>4, Memory DEF Held, cpuVars, memoryVars, interruptVars
  <2>2. WordOnBus'
    BY <1>4, <2>1, Memory DEF WordOnBus, WordIndex
  <2> QED
    BY <2>1, <2>2, SameLoad DEF LoadOnBus, Loads, Ready
<1>5. CASE Next /\ Tick
  <2> SUFFICES ASSUME Loads(instruction'),
                      Ready' \/ (control'.instruction_ok /\ control'.inst_mem)
               PROVE  /\ control'.instruction_ok /\ control'.inst_mem =>
                           /\ reader'.new_request_r => WordOnBus'
                           /\ reader'.read_ready => reader'.data_in_cpu = Loaded'
                      /\ Ready' => reader'.data_in_cpu = Loaded'
    BY DEF LoadOnBus, Loads
  <2>1. instruction' = instruction /\ control.ram_not_ready /\ Loads(instruction)
    BY <1>1, <1>5, BecomesReady
  <2>2. UNCHANGED <<registers, level, byte_mode, instruction, ram>>
    BY <1>1, <1>2, <1>5, <2>1, Unmoved, Memory
  <2>3. Loaded' = Loaded
    BY <2>2, SameLoad
  <2>4. ~reader.new_request_r => reader'.data_in_cpu = reader.data_in_cpu
    BY <1>5 DEF Tick, ram_interface!Clock, ram_interface!Read
  <2>5. ASSUME control'.instruction_ok, control'.inst_mem
        PROVE  /\ reader'.new_request_r => WordOnBus'
               /\ reader'.read_ready => reader'.data_in_cpu = Loaded'
    <3>1. control.instruction_ok
      BY <1>1, <1>5, <2>5, BecomesReady
    <3>2. reader'.new_request_r \/ reader'.read_ready =>
            control.inst_mem /\ addr = AccessAddr(instruction)
      BY <1>1, <1>5, <3>1, Units DEF Pipeline, Phases, Executing, ReadRequest, Trapping
    <3>3. ASSUME reader'.new_request_r
          PROVE  WordOnBus'
      <4>1. addr' = AccessAddr(instruction) /\ addr = AccessAddr(instruction)
        BY <1>5, <2>1, <3>1, <3>2, <3>3, Kinds, AccessOnBus DEF Tick, ram_interface!Clock
      <4> QED
        BY <1>5, <2>2, <4>1, Memory DEF WordOnBus, WordIndex
    <3>4. ASSUME reader'.read_ready
          PROVE  reader'.data_in_cpu = Loaded'
      <4>1. reader.new_request_r
        BY <1>5, <3>4, Units
      <4>2. WordOnBus
        BY <2>1, <3>1, <3>2, <3>4, <4>1 DEF LoadOnBus
      <4> QED
        BY <1>5, <2>1, <2>3, <3>1, <3>2, <3>4, <4>1, <4>2, ReaderTakes
    <3> QED
      BY <3>3, <3>4
  <2>6. ASSUME Ready'
        PROVE  reader'.data_in_cpu = Loaded'
    <3>1. CASE ram_interface!Finish
      <4>1. control.instruction_ok /\ control.inst_mem /\ reader.read_ready
        BY <2>1, <3>1, Kinds DEF ram_interface!Finish, ram_interface!AccessDone
      <4>2. ~reader.new_request_r
        BY <1>1, <4>1 DEF Pipeline, Executing
      <4> QED
        BY <2>1, <2>3, <2>4, <4>1, <4>2 DEF LoadOnBus
    <3>2. CASE control.readying_ram
      <4>1. ~reader.new_request_r
        BY <1>1, <3>2 DEF Pipeline
      <4> QED
        BY <2>1, <2>3, <2>4, <3>2, <4>1 DEF LoadOnBus, Ready
    <3> QED
      BY <1>1, <1>5, <2>6, <3>1, <3>2, BecomesReady
  <2> QED
    BY <2>5, <2>6
<1> QED
  BY <1>3, <1>4, <1>5 DEF Next

(* The word that the writer sends has the stored bytes. *)
LEMMA MergedIsStored ==
    ASSUME NEW word
    PROVE  IsStored(Merged(word))
<1> DEFINE x == Bits(ShiftLeft(StoredValue, FirstBit(Stored), WordBits))
           S == (Bits(word) \ StoredBits) \cup (x \cap StoredBits)
<1>1. S \in SUBSET (0..(HostBits - 1))
  <2>1. Bits(word) \in SUBSET (0..(HostBits - 1)) /\ x \in SUBSET (0..(HostBits - 1))
    BY BitsType
  <2> QED
    BY <2>1
<1> HIDE DEF x
<1>2. Bits(FromBits(S)) = S
  BY <1>1, BitsOfFromBits
<1>3. Merged(word) = FromBits(S)
  BY DEF Merged, x
<1>4. Bits(Merged(word)) \cap StoredBits = x \cap StoredBits
  BY <1>2, <1>3
<1> QED
  BY <1>4 DEF IsStored, x

(* What is to be stored does not change while the registers are kept. *)
LEMMA SameStored ==
    ASSUME UNCHANGED <<registers, level, byte_mode, instruction>>
    PROVE  Stored' = Stored /\ \A word : IsStored(word)' = IsStored(word)
<1>1. Stored' = Stored
  BY SameStore
<1>2. StoredValue' = StoredValue /\ FirstBit(Stored)' = FirstBit(Stored)
  BY <1>1 DEF StoredValue, FirstBit, PC, WR
<1>3. StoredBits' = StoredBits
  BY <1>1 DEF StoredBits, BitsOf, FirstBit, ram_interface!size_normal_access,
              ram_interface!reduced_behaviour_bits, SR
<1> QED
  BY <1>1, <1>2, <1>3 DEF IsStored

(* Through every clock, a store is in the memory when it ends. *)
LEMMA StepStoredInRam ==
    ASSUME IInv, StoredInRam, [Next]_vars
    PROVE  StoredInRam'
<1>1. Timing /\ Shape /\ Phases /\ Pipeline /\ WriteOnBus
  BY DEF IInv, Timing
<1>2. ASSUME Next
      PROVE  DOMAIN ram' = DOMAIN ram
  BY <1>1, <1>2, RamShape DEF Next
<1>3. ASSUME Next, Stores(instruction), WordIndex(Stored) \in DOMAIN ram
      PROVE  \/ writer.write_ready /\ ram'[WordIndex(Stored)] = writer.data_out_ram
             \/ ~writer.write_ready /\ ram'[WordIndex(Stored)] = ram[WordIndex(Stored)]
  BY <1>1, <1>3, Memory DEF WriteOnBus
<1>4. CASE UNCHANGED vars
  <2>1. UNCHANGED <<registers, level, byte_mode, instruction, ram, control, writer>>
    BY <1>4 DEF vars, cpuVars, memoryVars, interruptVars
  <2>2. Stored' = Stored /\ \A word : IsStored(word)' = IsStored(word)
    BY <2>1, SameStored
  <2>3. /\ IsStored(writer.data_out_ram)' = IsStored(writer.data_out_ram)
        /\ IsStored(ram[WordIndex(Stored)])' = IsStored(ram[WordIndex(Stored)])
    BY <2>1, <2>2, Zenon DEF IsStored, WordIndex
  <2> QED
    BY <2>1, <2>2, <2>3 DEF StoredInRam, Stores, Ready, WordIndex
<1>5. CASE Next /\ Held
  <2>1. UNCHANGED <<registers, level, byte_mode, instruction, control, writer>>
    BY <1>5 DEF Held, cpuVars, memoryVars, interruptVars
  <2>2. Stored' = Stored /\ \A word : IsStored(word)' = IsStored(word)
    BY <2>1, SameStored
  <2>3. /\ IsStored(writer.data_out_ram)' <=> IsStored(writer.data_out_ram)
        /\ IsStored(ram[WordIndex(Stored)])' <=> IsStored(ram'[WordIndex(Stored)])
    BY <2>1, <2>2, Zenon DEF IsStored, WordIndex
  <2> QED
    BY <1>2, <1>3, <1>5, <2>1, <2>2, <2>3 DEF StoredInRam, Stores, Ready, WordIndex
<1>6. CASE Next /\ Tick
  <2>1. ASSUME Stores(instruction'), WordIndex(Stored') \in DOMAIN ram', writer'.write_ready
        PROVE  IsStored(writer.data_out_ram)'
    <3>1. /\ Stores(instruction)
          /\ UNCHANGED <<registers, level, byte_mode, instruction, ram>>
          /\ WordIndex(Stored) \in DOMAIN ram =>
               writer'.data_out_ram = Merged(ram[WordIndex(Stored)])
      BY <1>6, <2>1, WriterMerges
    <3>2. Stored' = Stored /\ \A word : IsStored(word)' = IsStored(word)
      BY <3>1, SameStored
    <3>3. IsStored(writer'.data_out_ram)
      BY <2>1, <3>1, <3>2, MergedIsStored
    <3>4. IsStored(writer.data_out_ram)' <=> IsStored(writer'.data_out_ram)
      BY <3>2, Zenon DEF IsStored
    <3> QED
      BY <3>3, <3>4
  <2>2. ASSUME Stores(instruction'), WordIndex(Stored') \in DOMAIN ram', Ready',
               instruction' # ATOM
        PROVE  IsStored(ram[WordIndex(Stored)])'
    <3>1. instruction' = instruction /\ control.ram_not_ready
      BY <1>1, <1>6, <2>2, BecomesReady
    <3>2. UNCHANGED <<registers, level, byte_mode, instruction>>
      BY <1>1, <1>6, <3>1, Unmoved
    <3>3. Stored' = Stored /\ \A word : IsStored(word)' = IsStored(word)
      BY <3>2, SameStored
    <3>4. Stores(instruction) /\ WordIndex(Stored) \in DOMAIN ram
      BY <1>2, <1>6, <2>2, <3>1, <3>3 DEF WordIndex
    <3>5. IsStored(ram'[WordIndex(Stored)])
      <4>1. CASE writer.write_ready
        BY <1>3, <1>6, <3>4, <4>1 DEF StoredInRam
      <4>2. CASE ~writer.write_ready
        <5>1. ~ram_interface!Finish
          BY <2>2, <3>1, <3>4, <4>2, Kinds
             DEF ram_interface!Finish, ram_interface!AccessDone
        <5>2. control.readying_ram
          BY <1>1, <1>6, <2>2, <5>1, BecomesReady
        <5> QED
          BY <1>3, <1>6, <2>2, <3>1, <3>4, <4>2, <5>2 DEF StoredInRam, Ready
      <4> QED
        BY <4>1, <4>2
    <3>6. IsStored(ram[WordIndex(Stored)])' <=> IsStored(ram'[WordIndex(Stored)])
      BY <3>3, Zenon DEF IsStored, WordIndex
    <3> QED
      BY <3>5, <3>6
  <2> QED
    BY <2>1, <2>2 DEF StoredInRam, Stores, WordIndex
<1> QED
  BY <1>4, <1>5, <1>6 DEF Next

-----------------------------------------------------------------------------
(* The same instruction in the simulator. *)

Alike(i) == RegisterOnly(i) \/ Opperand(i) \in {STR, LOAD} \/ i \in {PUSH, POP}

(* What the instruction gives to write in a register. *)
Gives ==
    IF RegisterOnly(instruction) THEN alu_out(instruction, WR, other_register, SR)
    ELSE IF Loads(instruction) THEN reader.data_in_cpu
    ELSE WR

(* It is in content at the update, and nothing else is. *)
Result ==
    Alike(instruction) =>
        /\ control.instruction_ok /\ control.inst_mem => executed = instruction
        /\ control.readying_ram => executed = instruction /\ getint_out = 0
        /\ ~control.ram_not_ready => getint_out = 0 /\ content = Gives

(* At the clock before the update, content receives what is given. *)
LEMMA ResultContent ==
    ASSUME Typed, Next, Alike(instruction), executed = instruction, getint_out = 0
    PROVE  content' = Gives
<1> DEFINE v == alu_out(instruction, WR, other_register, SR)
           w == ram_interface!addr_out
<1>1. ASSUME RegisterOnly(instruction)
      PROVE  w = 0 /\ v = Gives
  <2>1. w = 0
    BY <1>1 DEF ram_interface!addr_out, ram_interface!data_in_usable, ram_interface!wr_out,
       ram_interface!atom_out, RegisterOnly, ram_interface!Opperand, ram_interface!STR,
       ram_interface!LOAD, ram_interface!PUSH, ram_interface!POP, ram_interface!CALL,
       ram_interface!RET, ram_interface!TBM, ram_interface!ATOM, Opperand, READ, CPY, SET,
       ADD, AND, OR, XOR, NOT, LSL, LSR, EQ, LES, JIF, CC2, CMPNOT, DEBUG
  <2> QED
    BY <1>1, <2>1, Zenon DEF Gives
<1>2. ASSUME ~RegisterOnly(instruction)
      PROVE  v = 0 /\ w = Gives
  <2>1. instruction \in Byte /\ (Opperand(instruction) \in {STR, LOAD} \/ instruction \in {PUSH, POP})
    BY <1>2 DEF Alike, Typed, Registers
  <2>2. /\ ~cmp_opp(instruction)
        /\ alu_nocmp(instruction, WR, other_register) = 0
    BY <2>1 DEF cmp_opp, alu_nocmp, Opperand, STR, LOAD, PUSH, POP, READ, CPY, SET,
       ADD, AND, OR, XOR, NOT, LSL, LSR, EQ, LES, JIF, CC2, CMPNOT, DEBUG
  <2>3. v = 0
    BY <2>2, Zenon DEF alu_out
  <2>4. w = IF Loads(instruction) THEN reader.data_in_cpu ELSE WR
    <3>1. WR \in Nat /\ reader.data_in_cpu \in Nat
      BY RegisterTypes, WordWidth DEF Typed, Memories, Word
    <3> QED
      BY <2>1, <3>1 DEF ram_interface!addr_out, ram_interface!data_in_usable,
         ram_interface!wr_out, ram_interface!atom_out, Loads, ram_interface!Opperand,
         ram_interface!STR, ram_interface!LOAD, ram_interface!PUSH, ram_interface!POP,
         ram_interface!CALL, ram_interface!RET, ram_interface!TBM, ram_interface!ATOM,
         Opperand, STR, LOAD, PUSH, POP
  <2> QED
    BY <1>2, <2>3, <2>4, Zenon DEF Gives
<1>3. interrupt_ctrl!addr_memory_out = {0}
  BY DEF interrupt_ctrl!addr_memory_out, interrupt_ctrl!RETINT, interrupt_ctrl!GETINTSTACK,
     interrupt_ctrl!SETINTSTACK, interrupt_ctrl!Ints, Alike, RegisterOnly, Opperand, STR, LOAD,
     PUSH, POP, READ, CPY, SET, ADD, AND, OR, XOR, NOT, LSL, LSR, EQ, LES, JIF, CC2, CMPNOT,
     DEBUG
<1>4. v \in HostWord /\ w \in HostWord /\ 0 \in HostWord
  BY AluType, AddrOutType, RegisterTypes, SmallWords, WordIsHostWord DEF Typed, Registers, Memories
<1>5. content' = BitOr(BitOr(v, w), BitOr(0, 0))
  BY <1>3, Zenon DEF Next, KeepContent
<1> HIDE DEF v, w
<1>6. BitOr(v, 0) = v /\ BitOr(0, w) = w /\ BitOr(w, 0) = w /\ BitOr(0, 0) = 0
  BY <1>4, OrZero
<1> QED
  BY <1>1, <1>2, <1>5, <1>6, Zenon

(* Through every clock, content is ready when the instruction ends. *)
LEMMA StepResult ==
    ASSUME IInv, Typed, NoneAfterGetInt, Result, [Next]_vars
    PROVE  Result'
<1>1. /\ Timing /\ Shape /\ Phases /\ Pipeline
      /\ ~control.ram_not_ready => executed = instruction
  BY DEF IInv, Timing, InstructionAtPC
<1>2. ASSUME UNCHANGED <<registers, instruction>>, reader'.data_in_cpu = reader.data_in_cpu
      PROVE  Gives' = Gives
  BY <1>2 DEF Gives, WR, SR, other_register
<1>3. CASE UNCHANGED vars
  <2>1. /\ UNCHANGED <<instruction, registers, executed, control, getint_out, content>>
        /\ reader' = reader
    BY <1>3 DEF vars, cpuVars, memoryVars, interruptVars
  <2> QED
    BY <1>2, <2>1, Zenon DEF Result
<1>4. CASE Next /\ Held
  <2>1. /\ UNCHANGED <<instruction, registers, executed, control, getint_out>>
        /\ reader' = reader
    BY <1>4 DEF Held, cpuVars, memoryVars, interruptVars
  <2>2. ASSUME Alike(instruction), ~control.ram_not_ready
        PROVE  content' = Gives
    BY <1>1, <1>4, <2>2, ResultContent DEF Result
  <2> QED
    BY <1>2, <2>1, <2>2, Zenon DEF Result
<1>5. CASE Next /\ Tick
  <2> SUFFICES ASSUME Alike(instruction')
               PROVE  /\ control'.instruction_ok /\ control'.inst_mem => executed' = instruction'
                      /\ control'.readying_ram => executed' = instruction' /\ getint_out' = 0
                      /\ ~control'.ram_not_ready => getint_out' = 0 /\ content' = Gives'
    BY DEF Result
  <2>1. executed' = instruction /\ interrupt_ctrl!Clock
    BY <1>5 DEF Tick
  <2>2. (\A n \in Ints : executed # GETINT + n) => getint_out' = 0
    BY <2>1 DEF interrupt_ctrl!Clock, interrupt_ctrl!ReadRoutine, interrupt_ctrl!SetRoutine,
       interrupt_ctrl!Ints, Ints, interrupt_ctrl!GETINT, GETINT
  <2>3. Alike(instruction) /\ executed = instruction => \A n \in Ints : executed # GETINT + n
    BY DEF Alike, RegisterOnly, Opperand, READ, CPY, SET, ADD, AND, OR, XOR, NOT,
       LSL, LSR, EQ, LES, STR, LOAD, JIF, CC2, CMPNOT, DEBUG, PUSH, POP, GETINT, Ints
  <2>4. control'.instruction_ok /\ control'.inst_mem => instruction' = instruction
    BY <1>1, <1>5, BecomesReady
  <2>5. CASE Ready' /\ ram_interface!Finish
    <3>1. instruction' = instruction /\ control.instruction_ok /\ control'.ram_not_ready
      BY <1>1, <2>5 DEF ram_interface!Finish, Shape, ControlShape, Flags, Phases
    <3>2. RegisterOnly(instruction) => \A n \in Ints : executed # GETINT + n
      BY <3>1 DEF NoneAfterGetInt
    <3>3. ~RegisterOnly(instruction) => control.inst_mem
      BY <2>5, <3>1, AccessInst DEF ram_interface!Finish, Alike, Accesses
    <3>4. \A n \in Ints : executed # GETINT + n
      BY <2>3, <3>1, <3>2, <3>3 DEF Result
    <3> QED
      BY <2>1, <2>2, <2>4, <3>1, <3>4
  <2>6. CASE Ready' /\ control.readying_ram
    <3>1. /\ instruction' = instruction /\ control.ram_not_ready
          /\ executed = instruction /\ getint_out = 0
      BY <1>1, <1>5, <2>6, BecomesReady DEF Result
    <3>2. registers' = registers
      BY <1>5, <3>1 DEF Tick, UpdateRegisters
    <3>3. ~reader.new_request_r
      BY <1>1, <2>6 DEF Pipeline
    <3>4. reader'.data_in_cpu = reader.data_in_cpu
      BY <1>5, <3>3 DEF Tick, ram_interface!Clock, ram_interface!Read
    <3>5. getint_out' = 0
      BY <2>2, <2>3, <3>1
    <3>6. content' = Gives /\ Gives' = Gives
      BY <1>2, <1>5, <3>1, <3>2, <3>4, ResultContent
    <3> QED
      BY <2>1, <3>1, <3>5, <3>6
  <2>7. Ready' => ram_interface!Finish \/ control.readying_ram
    BY <1>1, <1>5, BecomesReady
  <2>8. CASE ~Ready'
    BY <2>1, <2>4, <2>8 DEF Ready
  <2> QED
    BY <2>5, <2>6, <2>7, <2>8
<1> QED
  BY <1>3, <1>4, <1>5 DEF Next

(* The update writes it. *)
LEMMA ProcessorIndex ==
    ASSUME executed \in Byte, Alike(executed), instruction = executed
    PROVE  index = alu_out_reg(executed, SR)
<1> DEFINE d == alu_out_reg(executed, SR)
<1>1. ram_interface!addr_out_reg = 0 /\ interrupt_ctrl!out_reg = 0
  BY DEF ram_interface!addr_out_reg, ram_interface!RET, ram_interface!CALL,
     ram_interface!ATOM, ram_interface!WR_REG, interrupt_ctrl!out_reg, interrupt_ctrl!RETINT,
     Alike, RegisterOnly, Opperand, READ, CPY, SET, ADD, AND, OR, XOR, NOT, LSL, LSR, EQ, LES,
     STR, LOAD, JIF, CC2, CMPNOT, DEBUG, PUSH, POP
<1>2. d \in HostWord /\ 0 \in HostWord
  <2>1. d \in 0..15
    BY DEF alu_out_reg, RegOf, SR_REG, PC_REG, WR_REG, Byte
  <2> QED
    BY <2>1, SmallWords, WordIsHostWord
<1> HIDE DEF d
<1>3. BitOr(d, 0) = d /\ BitOr(0, 0) = 0
  BY <1>2, OrZero
<1>4. index = BitOr(alu_out_reg(executed, SR), BitOr(0, 0))
  BY <1>1, Zenon DEF index
<1> QED
  BY <1>3, <1>4, Zenon DEF d

(* What the instruction i makes of the registers. *)
Carried(i) ==
    LET d == alu_out_reg(i, SR)
        v == alu_out(i, WR, registers[RegOf(i)], SR)
    IN  [[registers EXCEPT ![PC_REG] = IF d = PC_REG THEN @ ELSE NextPC] EXCEPT ![d] = v]

(* The update of the processor, for an instruction on registers. *)
LEMMA ProcessorCarries ==
    ASSUME Typed, IInv, Result, Tick, RegisterOnly(executed),
           ~control.ram_not_ready, ~interrupt_ctrl!new_int
    PROVE  registers' = Carried(executed)
<1>1. instruction = executed /\ executed \in Byte /\ registers \in [0..15 -> Word]
  BY DEF IInv, InstructionAtPC, Typed, Registers
<1> DEFINE d == alu_out_reg(executed, SR)
           v == alu_out(executed, WR, registers[RegOf(executed)], SR)
<1>2. content = v
  BY <1>1 DEF Result, Alike, Gives, other_register
<1>3. index = d
  BY <1>1, ProcessorIndex DEF Alike
<1>4. executed \notin {QUIT, PUSH, CALL, POP, RET}
  BY <1>1 DEF RegisterOnly, Opperand, READ, CPY, SET, ADD, AND, OR, XOR, NOT, LSL, LSR, EQ,
     LES, JIF, CC2, CMPNOT, DEBUG, QUIT, PUSH, CALL, POP, RET
<1>5. SPAfter = SP
  BY <1>4 DEF SPAfter
<1>6. Execute
  BY DEF Tick, UpdateRegisters
<1> DEFINE pc == IF d = PC_REG THEN PC ELSE NextPC
<1>7. registers' = [[registers EXCEPT ![SP_REG] = SP, ![PC_REG] = pc] EXCEPT ![d] = v]
  BY <1>2, <1>3, <1>4, <1>5, <1>6, Zenon DEF Execute
<1>8. [registers EXCEPT ![SP_REG] = SP, ![PC_REG] = pc] = [registers EXCEPT ![PC_REG] = pc]
  <2> HIDE DEF pc
  <2> QED
    BY <1>1 DEF SP, SP_REG, PC_REG
<1>9. Carried(executed) =
        [[registers EXCEPT ![PC_REG] = IF d = PC_REG THEN registers[PC_REG] ELSE NextPC]
           EXCEPT ![d] = v]
  BY DEF Carried
<1>10. (IF d = PC_REG THEN registers[PC_REG] ELSE NextPC) = pc
  BY DEF PC
<1> HIDE DEF pc, d, v
<1> QED
  BY <1>7, <1>8, <1>9, <1>10, Zenon

(* What an access makes of the registers. *)
Accessing ==
    [registers EXCEPT
       ![SP_REG] = IF executed = PUSH THEN (SP + WordBytes) % WordMod
                   ELSE IF executed = POP THEN (SP - WordBytes) % WordMod
                   ELSE SP,
       ![PC_REG] = NextPC,
       ![WR_REG] = IF Loads(executed) THEN Loaded ELSE WR]

(* The update of the processor, for an access. *)
LEMMA ProcessorAccesses ==
    ASSUME Typed, IInv, Result, LoadOnBus, Tick, Alike(executed), ~RegisterOnly(executed),
           ~control.ram_not_ready, ~interrupt_ctrl!new_int
    PROVE  registers' = Accessing
<1>1. instruction = executed /\ executed \in Byte /\ registers \in [0..15 -> Word]
  BY DEF IInv, InstructionAtPC, Typed, Registers
<1> DEFINE v == IF Loads(executed) THEN Loaded ELSE WR
<1>2. content = v
  BY <1>1 DEF Result, Gives, LoadOnBus, Ready
<1>3. Opperand(executed) \in {STR, LOAD} \/ executed \in {PUSH, POP}
  BY DEF Alike
<1>4. index = WR_REG
  <2>1. alu_out_reg(executed, SR) = WR_REG
    BY <1>1, <1>3 DEF alu_out_reg, cmp_opp, Opperand, STR, LOAD, PUSH, POP, EQ, LES, CMPNOT,
       CPY, JIF
  <2> QED
    BY <1>1, <2>1, ProcessorIndex
<1>5. executed \notin {QUIT, CALL, RET} /\ (executed = PUSH => ~Loads(executed))
  BY <1>1, <1>3 DEF Loads, Opperand, STR, LOAD, QUIT, PUSH, CALL, POP, RET
<1> DEFINE sp == IF executed = PUSH THEN (SP + WordBytes) % WordMod
                 ELSE IF executed = POP THEN (SP - WordBytes) % WordMod
                 ELSE SP
<1>6. SPAfter = sp
  BY <1>5 DEF SPAfter
<1>7. Execute
  BY DEF Tick, UpdateRegisters
<1>8. Accessing = [registers EXCEPT ![SP_REG] = sp, ![PC_REG] = NextPC, ![WR_REG] = v]
  BY DEF Accessing
<1>9. registers' = LET moved == [registers EXCEPT ![SP_REG] = sp, ![PC_REG] = NextPC]
                   IN  IF executed = PUSH THEN moved ELSE [moved EXCEPT ![WR_REG] = v]
  <2>1. WR_REG # PC_REG
    BY DEF WR_REG, PC_REG
  <2> HIDE DEF v, sp
  <2> QED
    BY <1>2, <1>4, <1>5, <1>6, <1>7, <2>1 DEF Execute
<1>10. executed = PUSH => v = registers[WR_REG]
  BY <1>5 DEF WR
<1> HIDE DEF v, sp
<1>11. CASE executed = PUSH
  <2>1. registers' = [registers EXCEPT ![SP_REG] = sp, ![PC_REG] = NextPC] /\ v = registers[WR_REG]
    BY <1>9, <1>10, <1>11
  <2> DEFINE moved == [registers EXCEPT ![SP_REG] = sp, ![PC_REG] = NextPC]
  <2>2. moved \in [0..15 -> {registers[r] : r \in 0..15} \cup {sp, NextPC}] /\ moved[WR_REG] = v
    BY <1>1, <2>1 DEF SP_REG, PC_REG, WR_REG
  <2>3. Accessing = [moved EXCEPT ![WR_REG] = v]
    BY <1>8
  <2> HIDE DEF moved
  <2>4. [moved EXCEPT ![WR_REG] = v] = moved
    BY <2>2 DEF WR_REG
  <2> QED
    BY <2>1, <2>3, <2>4 DEF moved
<1>12. CASE executed # PUSH
  BY <1>8, <1>9, <1>12 DEF SP_REG, PC_REG, WR_REG
<1> QED
  BY <1>11, <1>12

(* The simulator has operators of its own for words. *)
LEMMA SimulatorWords ==
    /\ Alone!WordBits = WordBits /\ Alone!WordMod = WordMod /\ Alone!HostMod = HostMod
    /\ \A v, w : /\ Alone!BitAnd(v, w) = BitAnd(v, w) /\ Alone!BitOr(v, w) = BitOr(v, w)
                 /\ Alone!BitXor(v, w) = BitXor(v, w)
                 /\ Alone!Bit(v, w) = Bit(v, w)
                 /\ Alone!ShiftRight(v, w) = ShiftRight(v, w)
    /\ \A v, s, w : Alone!ShiftLeft(v, s, w) = ShiftLeft(v, s, w)
<1>1. \A v : Alone!Bits(v) = Bits(v) /\ \A i : Alone!Bit(v, i) = Bit(v, i)
  BY DEF Alone!Bits, Bits, Alone!Bit, Bit
<1>2. \A S : Alone!FromBits(S) = FromBits(S)
  BY DEF Alone!FromBits, FromBits, Alone!SumFunction, SumFunction,
         Alone!SumFunctionOnSet, SumFunctionOnSet,
         Alone!FoldFunctionOnSet, FoldFunctionOnSet,
         Alone!MapThenFoldSet, MapThenFoldSet
<1>3. /\ Alone!WordBits = WordBits /\ Alone!WordMod = WordMod /\ Alone!HostMod = HostMod
  BY DEF Alone!WordBits, WordBits, Alone!WordMod, WordMod, Alone!HostMod, HostMod
<1>4. \A v, w : /\ Alone!BitAnd(v, w) = BitAnd(v, w) /\ Alone!BitOr(v, w) = BitOr(v, w)
                /\ Alone!BitXor(v, w) = BitXor(v, w)
  BY <1>1, <1>2, Zenon DEF Alone!BitAnd, BitAnd, Alone!BitOr, BitOr, Alone!BitXor, BitXor
<1>5. \A v, w : Alone!ShiftRight(v, w) = ShiftRight(v, w)
  BY DEF Alone!ShiftRight, ShiftRight
<1>6. \A v, s, w : Alone!ShiftLeft(v, s, w) = ShiftLeft(v, s, w)
  BY DEF Alone!ShiftLeft, ShiftLeft
<1> QED
  BY <1>1, <1>3, <1>4, <1>5, <1>6

(* The same in the simulator, case by case. *)
LEMMA SimulatorCarries ==
    ASSUME Typed, NEW i \in Byte, RegisterOnly(i), aloneReg = registers, PC + 1 < WordMod,
           Opperand(i) \in {LSL, LSR} => registers[RegOf(i)] < 64,
           Alone!RegisterInst(i)
    PROVE  aloneReg' = Carried(i)
<1> DEFINE r == registers[RegOf(i)]
           out(v, d) == [[registers EXCEPT ![PC_REG] = IF d = PC_REG THEN @ ELSE NextPC]
                           EXCEPT ![d] = v]
<1>1. /\ registers \in [0..15 -> Word] /\ PC \in Word /\ WR \in Word /\ SR \in Word /\ r \in Word
      /\ RegOf(i) \in 0..15
  BY RegisterTypes DEF Typed, Registers, RegOf, Byte
<1>2. (PC + 1) % HostMod = PC + 1 /\ NextPC = PC + 1
  <2>1. PC + 1 \in Nat /\ PC + 1 < WordMod /\ WordMod <= HostMod /\ WordMod \in Nat /\ HostMod \in Nat
    BY <1>1, WordWidth, HostType, PowMonotone DEF Word, WordMod, HostMod
  <2> QED
    BY <2>1 DEF NextPC
<1>3. Alone!WR = WR /\ Alone!SR = SR /\ Alone!PC = PC
  BY DEF Alone!WR, WR, Alone!SR, SR, Alone!PC, PC, Alone!WR_REG, WR_REG, Alone!SR_REG, SR_REG,
     Alone!PC_REG, PC_REG
<1>4. ASSUME NEW v, NEW d \in 0..15, d # PC_REG,
             Alone!Done([registers EXCEPT ![d] = v])
      PROVE  aloneReg' = out(v, d)
  <2>1. aloneReg' = [[registers EXCEPT ![d] = v] EXCEPT ![PC_REG] = (PC + 1) % HostMod]
    BY <1>1, <1>4, SimulatorWords DEF Alone!Done, Alone!PC_REG, PC_REG, PC
  <2>2. out(v, d) = [[registers EXCEPT ![PC_REG] = PC + 1] EXCEPT ![d] = v]
    BY <1>2, <1>4
  <2> HIDE DEF out
  <2> QED
    BY <1>1, <1>2, <1>4, <2>1, <2>2 DEF PC_REG
<1>5. ASSUME NEW v, Alone!SetWR(v)
      PROVE  aloneReg' = out(v, WR_REG)
  <2>1. Alone!Done([registers EXCEPT ![WR_REG] = v]) /\ WR_REG # PC_REG /\ WR_REG \in 0..15
    BY <1>5 DEF Alone!SetWR, Alone!WR_REG, WR_REG, PC_REG
  <2> HIDE DEF out
  <2> QED
    BY <1>4, <2>1
<1>6. Carried(i) = out(alu_out(i, WR, r, SR), alu_out_reg(i, SR))
  BY DEF Carried
<1> HIDE DEF out
<1>7. /\ Alone!Opperand(i) = Opperand(i) /\ Alone!RegOf(i) = RegOf(i)
      /\ aloneReg[RegOf(i)] = r /\ (r % WordMod) = r /\ (WR % WordMod) = WR
  BY <1>1, WordWidth DEF Alone!Opperand, Opperand, Alone!RegOf, RegOf, Word, r
<1> HIDE DEF r
<1>8. ASSUME NEW v, Alone!SetWR(v), v = alu_nocmp(i, WR, r),
             ~cmp_opp(i), Opperand(i) # CPY, i # JIF
      PROVE  aloneReg' = Carried(i)
  <2>1. alu_out(i, WR, r, SR) = v /\ alu_out_reg(i, SR) = WR_REG
    BY <1>8, Zenon DEF alu_out, alu_out_reg
  <2> QED
    BY <1>5, <1>6, <1>8, <2>1
<1>9. CASE Alone!Set(i) \/ Alone!Read(i)
  <2>1. PICK v : /\ Alone!SetWR(v)
                 /\ \/ Opperand(i) = SET /\ v = RegOf(i)
                    \/ Opperand(i) = READ /\ v = r
    BY <1>7, <1>9, Zenon DEF Alone!Set, Alone!Read, Alone!SET, Alone!READ, SET, READ
  <2>2. v = alu_nocmp(i, WR, r) /\ ~cmp_opp(i) /\ Opperand(i) # CPY /\ i # JIF
    BY <2>1 DEF alu_nocmp, cmp_opp, Opperand, READ, CPY, SET, ADD, AND, OR, XOR, NOT, LSL, LSR,
       EQ, LES, JIF, CC2, CMPNOT, DEBUG
  <2> QED
    BY <1>8, <2>1, <2>2
<1>10. CASE Alone!Alu(i)
  <2>1. Alone!ShiftAmounts(r) = {r} \/ Opperand(i) \notin {LSL, LSR}
    BY <1>7 DEF Alone!ShiftAmounts, r
  <2>2. PICK v : /\ Alone!SetWR(v)
                 /\ \/ Opperand(i) = ADD /\ v = (WR + r) % WordMod
                    \/ Opperand(i) = AND /\ v = BitAnd(WR, r)
                    \/ Opperand(i) = OR  /\ v = BitOr(WR, r)
                    \/ Opperand(i) = XOR /\ v = BitXor(WR, r)
                    \/ Opperand(i) = NOT /\ v = WordMod - 1 - r
                    \/ Opperand(i) = LSL /\ v = ShiftLeft(WR, r, WordBits)
                    \/ Opperand(i) = LSR /\ v = ShiftRight(WR, r)
                    \/ i = CC2 /\ v = (WordMod - WR) % WordMod
    BY <1>3, <1>7, <1>10, <2>1, SimulatorWords
       DEF Alone!Alu, Alone!ADD, ADD, Alone!AND, AND, Alone!OR, OR, Alone!XOR, XOR, Alone!NOT,
           NOT, Alone!LSL, LSL, Alone!LSR, LSR, Alone!CC2, CC2
  <2>3. v = alu_nocmp(i, WR, r) /\ ~cmp_opp(i) /\ Opperand(i) # CPY /\ i # JIF
    BY <2>2 DEF alu_nocmp, cmp_opp, Opperand, READ, CPY, SET, ADD, AND, OR, XOR, NOT, LSL, LSR,
       EQ, LES, JIF, CC2, CMPNOT, DEBUG
  <2> QED
    BY <1>8, <2>2, <2>3
<1>11. CASE Alone!Compare(i)
  <2> DEFINE flag(b) == (SR - (SR % 2)) + (IF b THEN 1 ELSE 0)
  <2>1. PICK b \in BOOLEAN : /\ Alone!Done(Alone!WithComp(registers, b))
                             /\ \/ Opperand(i) = EQ /\ (b <=> WR = r)
                                \/ Opperand(i) = LES /\ (b <=> WR < r)
                                \/ i = CMPNOT /\ (b <=> ~Bit(SR, 0))
    <3>1. CASE Opperand(i) = EQ /\ Alone!Done(Alone!WithComp(registers, WR = r))
      BY <3>1
    <3>2. CASE Opperand(i) = LES /\ Alone!Done(Alone!WithComp(registers, WR < r))
      <4>1. (WR < r) \in BOOLEAN
        BY <1>1
      <4> QED
        BY <3>2, <4>1, Zenon
    <3>3. CASE i = CMPNOT /\ Alone!Done(Alone!WithComp(registers, ~Bit(SR, 0)))
      BY <3>3
    <3>4. \/ Opperand(i) = EQ /\ Alone!Done(Alone!WithComp(registers, WR = r))
          \/ Opperand(i) = LES /\ Alone!Done(Alone!WithComp(registers, WR < r))
          \/ i = CMPNOT /\ Alone!Done(Alone!WithComp(registers, ~Bit(SR, 0)))
      BY <1>3, <1>7, <1>11, SimulatorWords, Zenon
         DEF Alone!Compare, Alone!EQ, EQ, Alone!LES, LES, Alone!CMPNOT, CMPNOT
    <3> QED
      BY <3>1, <3>2, <3>3, <3>4
  <2>2. cmp_opp(i) /\ (cmp(i, WR, r, SR) <=> b)
    BY <2>1 DEF cmp_opp, cmp, Opperand, EQ, LES, CMPNOT
  <2>3. alu_out(i, WR, r, SR) = flag(b) /\ alu_out_reg(i, SR) = SR_REG
    BY <2>2 DEF alu_out, alu_out_reg
  <2>4. SR_REG \in 0..15 /\ SR_REG # PC_REG
    BY DEF SR_REG, PC_REG
  <2>5. Alone!WithComp(registers, b) = [registers EXCEPT ![SR_REG] = flag(b)]
    BY DEF Alone!WithComp, Alone!SR_REG, SR_REG, SR
  <2> HIDE DEF flag
  <2> QED
    BY <1>4, <1>6, <2>1, <2>3, <2>4, <2>5
<1>12. CASE Alone!Cpy(i)
  <2>1. Opperand(i) = CPY
    BY <1>7, <1>12 DEF Alone!Cpy, Alone!CPY, CPY
  <2>2. alu_out(i, WR, r, SR) = WR /\ alu_out_reg(i, SR) = RegOf(i)
    BY <2>1 DEF alu_out, alu_out_reg, alu_nocmp, cmp_opp, Opperand, READ, CPY, SET, ADD, AND,
       OR, XOR, NOT, LSL, LSR, EQ, LES, JIF, CC2, CMPNOT, DEBUG
  <2>3. IF RegOf(i) = PC_REG THEN aloneReg' = [registers EXCEPT ![PC_REG] = WR]
        ELSE Alone!Done([registers EXCEPT ![RegOf(i)] = WR])
    BY <1>3, <1>7, <1>12 DEF Alone!Cpy, Alone!PC_REG, PC_REG
  <2>4. out(WR, PC_REG) = [registers EXCEPT ![PC_REG] = WR]
    BY <1>1 DEF out, PC_REG
  <2> QED
    BY <1>1, <1>4, <1>6, <2>2, <2>3, <2>4
<1>13. CASE Alone!Jif(i)
  <2>1. /\ i = JIF
        /\ IF Bit(SR, 0) THEN aloneReg' = [registers EXCEPT ![PC_REG] = WR]
           ELSE Alone!Done(registers)
    BY <1>3, <1>13, SimulatorWords DEF Alone!Jif, Alone!JIF, JIF, Alone!PC_REG, PC_REG
  <2>2. /\ alu_out(i, WR, r, SR) = WR
        /\ alu_out_reg(i, SR) = IF Bit(SR, 0) THEN PC_REG ELSE WR_REG
    BY <2>1 DEF alu_out, alu_out_reg, alu_nocmp, cmp_opp, Opperand, READ, CPY, SET, ADD, AND,
       OR, XOR, NOT, LSL, LSR, EQ, LES, JIF, CC2, CMPNOT, DEBUG
  <2>3. out(WR, PC_REG) = [registers EXCEPT ![PC_REG] = WR]
    BY <1>1 DEF out, PC_REG
  <2>4. registers = [registers EXCEPT ![WR_REG] = WR] /\ WR_REG \in 0..15 /\ WR_REG # PC_REG
    BY <1>1 DEF WR, WR_REG, PC_REG
  <2> QED
    BY <1>4, <1>6, <2>1, <2>2, <2>3, <2>4
<1>14. CASE Alone!Debug(i)
  <2>1. i = DEBUG /\ Alone!Done(registers)
    BY <1>14 DEF Alone!Debug, Alone!DEBUG, DEBUG
  <2>2. alu_out(i, WR, r, SR) = WR /\ alu_out_reg(i, SR) = WR_REG
    BY <2>1 DEF alu_out, alu_out_reg, alu_nocmp, cmp_opp, Opperand, READ, CPY, SET, ADD, AND,
       OR, XOR, NOT, LSL, LSR, EQ, LES, JIF, CC2, CMPNOT, DEBUG
  <2>3. registers = [registers EXCEPT ![WR_REG] = WR] /\ WR_REG \in 0..15 /\ WR_REG # PC_REG
    BY <1>1 DEF WR, WR_REG, PC_REG
  <2> QED
    BY <1>4, <1>6, <2>1, <2>2, <2>3
<1>15. ~\E n \in Alone!Ints : Alone!GetInt(i, n) \/ Alone!GetIntStack(i, n)
  BY DEF Alone!GetInt, Alone!GetIntStack, Alone!GETINT, Alone!GETINTSTACK, Alone!Ints,
     RegisterOnly, Opperand, READ, CPY, SET, ADD, AND, OR, XOR, NOT, LSL, LSR, EQ, LES, JIF,
     CC2, CMPNOT, DEBUG
<1> QED
  BY <1>9, <1>10, <1>11, <1>12, <1>13, <1>14, <1>15 DEF Alone!RegisterInst

(* A byte of the memory is one of its word. *)
LEMMA ByteOfRam ==
    ASSUME Memories, NEW a \in 0..(RamSize - 1)
    PROVE  ByteAt(a) = RamByte(a)
<1> DEFINE k == (a % WordBytes)
           s == 8 * k
           w == ram[WordIndex(a)]
           S == Bits(w) \cap BitsOf(a, 0)
           x == FromBits(S)
<1>1. /\ a \in Nat /\ WordBytes \in Nat \ {0} /\ k \in 0..(WordBytes - 1)
      /\ WordIndex(a) \in 0..(RamWords - 1)
  BY IndexInRam, WordWidth, RtlAssumption
<1>2. /\ WordIndex(a) \in DOMAIN ram /\ w \in Word /\ w \in Nat
  BY <1>1 DEF Memories, Word
<1>3. s \in Nat /\ s + 7 <= WordBits - 1 /\ WordBits <= HostBits /\ HostBits \in Nat /\ WordBits \in Nat
  BY <1>1, WordWidth DEF WordBits
<1>4. S \in SUBSET (0..(HostBits - 1)) /\ x \in Nat /\ Bits(x) = S
  <2>1. S \in SUBSET (0..(HostBits - 1))
    BY BitsType
  <2> HIDE DEF S
  <2> QED
    BY <2>1, FromBitsWord, BitsOfFromBits DEF HostWord
<1>5. ASSUME NEW i \in 0..7
      PROVE  Bit(x \div 2^s, i) <=> Bit(w \div 2^s, i)
  <2>1. i + s \in 0..(HostBits - 1) /\ i + s \in BitsOf(a, 0)
    <3>1. 8 * 2^0 = 8
      OBVIOUS
    <3>2. i + s \in 0..(WordBits - 1)
      BY <1>3
    <3> QED
      BY <1>3, <3>1, <3>2 DEF BitsOf, FirstBit
  <2> HIDE DEF S, x, w, s
  <2>2. i + s \in Bits(x) <=> i + s \in Bits(w)
    BY <1>4, <2>1 DEF S
  <2>3. Bit(x, i + s) <=> Bit(w, i + s)
    BY <2>1, <2>2 DEF Bits
  <2> QED
    BY <1>2, <1>3, <1>4, <2>3, BitShift
<1>6. {i \in 0..(8 - 1) : Bit(x \div 2^s, i)} = {i \in 0..(8 - 1) : Bit(w \div 2^s, i)}
  BY <1>5
<1>7. x \div 2^s \in Nat /\ w \div 2^s \in Nat
  <2>1. 2^s \in Nat \ {0}
    BY <1>3, PowPositive
  <2> HIDE DEF x, w, s
  <2> QED
    BY <1>2, <1>4, <2>1
<1>8. ((x \div 2^s) % 2^8) = ((w \div 2^s) % 2^8)
  <2> HIDE DEF x, w, s
  <2> QED
    BY <1>6, <1>7, FromBitsOfLow
<1>9. 2^8 = 256
  OBVIOUS
<1>10. ByteAt(a) = ((x \div 2^s) % 256)
  <2>1. WordAt(a) = w /\ FirstBit(a) = s
    BY <1>2 DEF WordAt, FirstBit
  <2>2. ~(s >= HostBits)
    BY <1>3
  <2>3. ByteAt(a) = (ShiftRight(x, s) % 256)
    BY <2>1, Zenon DEF ByteAt
  <2> HIDE DEF x, s
  <2> QED
    BY <2>2, <2>3 DEF ShiftRight
<1>11. RamByte(a) = ((w \div 2^s) % 256)
  BY DEF RamByte, WordIndex
<1> QED
  BY <1>8, <1>9, <1>10, <1>11, Zenon

(* The size of the access is that of a word or less. *)
LEMMA LogSizeType ==
    ASSUME Registers, executed = instruction, AccessSize <= WordBytes
    PROVE  LogSize \in 0..3 /\ 2^LogSize = AccessSize /\ AccessSize \in 1..8
<1>1. AccessSize = 2^LogSize
  BY SizeIsLog
<1>2. \E k \in 0..3 : 2^k = WordBytes
  <2>1. 2^0 = 1 /\ 2^1 = 2 /\ 2^2 = 4 /\ 2^3 = 8
    OBVIOUS
  <2> QED
    BY <2>1, RtlAssumption
<1>3. ram_interface!size_used_max \in 0..3
  BY <1>2, Zenon DEF ram_interface!size_used_max
<1>4. ram_interface!size_normal_access \in Nat
  <2>1. ram_interface!SizeMod \in Nat \ {0}
    BY <1>3, PowPositive DEF ram_interface!SizeMod
  <2>2. ram_interface!reduced_behaviour_bits \in Nat
    <3>1. SR \in Nat
      BY RegisterTypes, WordWidth DEF Word
    <3> QED
      BY <3>1 DEF ram_interface!reduced_behaviour_bits
  <2> QED
    BY <1>3, <2>1, <2>2 DEF ram_interface!size_normal_access
<1>5. LogSize \in Nat
  BY <1>3, <1>4 DEF LogSize
<1>6. LogSize <= 3
  <2> SUFFICES ASSUME LogSize >= 4 PROVE FALSE
    BY <1>5
  <2>1. 2^4 <= 2^LogSize
    BY <1>5, PowMonotone
  <2>2. 2^4 = 16
    OBVIOUS
  <2>3. 2^LogSize \in Nat
    BY <1>5, PowType
  <2> QED
    BY <1>1, <2>1, <2>2, <2>3, RtlAssumption
<1>7. AccessSize \in Nat \ {0}
  BY <1>1, <1>5, PowPositive
<1> QED
  BY <1>1, <1>5, <1>6, <1>7, RtlAssumption

(* An access that fits is one that the two machines make. *)
LEMMA AccessShape ==
    ASSUME Typed, executed = instruction, AccessFits
    PROVE  /\ LogSize \in 0..3 /\ 2^LogSize = AccessSize /\ AccessSize \in 1..8
           /\ 2^LogSize <= WordBytes /\ AccessSize < HostMod
           /\ Accessed \in Nat /\ (Accessed % 2^LogSize) = 0 /\ Accessed + 2^LogSize <= RamSize
           /\ RamSize \in Nat /\ HostMod \in Nat /\ RamSize <= HostMod
           /\ 8 * AccessSize <= HostBits
<1>1. LogSize \in 0..3 /\ 2^LogSize = AccessSize /\ AccessSize \in 1..8
  BY LogSizeType DEF Typed, AccessFits
<1>2. Accessed \in Nat
  <2>1. SP \in Nat /\ WR \in Nat
    BY RegisterTypes, WordWidth DEF Typed, Word
  <2>2. (SP - WordBytes) % WordMod \in Nat
    BY <2>1, WordWidth
  <2>3. registers[RegOf(executed)] \in Nat
    <3>1. RegOf(executed) \in 0..15
      BY DEF Typed, Registers, Byte, RegOf
    <3> QED
      BY <3>1, WordWidth DEF Typed, Registers, Word
  <2> QED
    BY <2>1, <2>2, <2>3 DEF Accessed, AccessAddr
<1>3. HostMod \in Nat /\ RamSize \in Nat /\ RamSize <= HostMod
  BY HostType, RtlAssumption, RamInHost
<1>4. 8 * AccessSize <= HostBits /\ HostBits \in Nat
  BY <1>1, WordWidth DEF AccessFits, WordBits
<1>5. AccessSize < HostMod
  <2>1. 8 \in Nat /\ 8 <= HostBits
    BY <1>1, <1>4
  <2>2. 2^8 <= 2^HostBits
    BY <1>4, <2>1, PowMonotone
  <2>3. 2^8 = 256
    OBVIOUS
  <2> QED
    BY <1>1, <1>3, <2>2, <2>3 DEF HostMod
<1> QED
  BY <1>1, <1>2, <1>3, <1>4, <1>5 DEF AccessFits

(* The simulator has the same size. *)
LEMMA SimulatorSize ==
    ASSUME Typed, executed = instruction, AccessFits, aloneReg = registers,
           aloneByteMode = byte_mode, aloneLevel.level = level
    PROVE  /\ executed \notin {PUSH, POP, CALL, RET} => Alone!byteExchanged(FALSE) = {AccessSize}
           /\ executed \in {PUSH, POP} /\ AccessesAlike(executed) => AccessSize = WordBytes
<1> DEFINE reduced == SR \div 2^8
<1>1. SR \in Nat /\ SR < 2^16 /\ 2^16 = 65536 /\ 2^8 = 256
  BY RegisterTypes, WordWidth DEF Typed, Word, AccessFits
<1>2. Reduced = reduced /\ reduced \in Nat
  BY <1>1 DEF Reduced
<1>3. Alone!SR = SR /\ Alone!LEVEL_NORMAL = LEVEL_NORMAL
  BY DEF Alone!SR, SR, Alone!SR_REG, SR_REG, Alone!LEVEL_NORMAL, LEVEL_NORMAL
<1> HIDE DEF reduced
<1>4. ASSUME executed \notin {PUSH, POP, CALL, RET}
      PROVE  Alone!byteExchanged(FALSE) = {AccessSize}
  <2>1. CASE level = LEVEL_NORMAL /\ byte_mode
    BY <1>3, <2>1 DEF Alone!byteExchanged, AccessSize
  <2>2. CASE ~(level = LEVEL_NORMAL /\ byte_mode) /\ reduced = 0
    BY <1>2, <1>3, <2>2 DEF Alone!byteExchanged, AccessSize, reduced
  <2>3. CASE ~(level = LEVEL_NORMAL /\ byte_mode) /\ reduced # 0
    <3> DEFINE e == reduced - 1
    <3>1. AccessSize = 2^e
      BY <1>2, <1>4, <2>3 DEF AccessSize
    <3>2. e \in Nat /\ AccessSize \in 1..8
      BY <1>2, <2>3, AccessShape
    <3> HIDE DEF e
    <3>3. e < 4
      <4> SUFFICES ASSUME e >= 4 PROVE FALSE
        BY <3>2
      <4>1. 2^4 <= 2^e
        BY <3>2, PowMonotone
      <4>2. 2^4 = 16
        OBVIOUS
      <4> QED
        BY <3>1, <3>2, <4>1, <4>2
    <3>4. reduced < 32
      BY <1>2, <3>3 DEF e
    <3>5. Alone!byteExchanged(FALSE) = {2^(reduced - 1)}
      BY <1>3, <2>3, <3>4 DEF Alone!byteExchanged, reduced
    <3> QED
      BY <3>1, <3>5 DEF e
  <2> QED
    BY <2>1, <2>2, <2>3
<1>5. ASSUME executed \in {PUSH, POP}, AccessesAlike(executed)
      PROVE  AccessSize = WordBytes
  <2>1. ~(level = LEVEL_NORMAL /\ byte_mode)
    BY <1>5 DEF AccessesAlike, Opperand, STR, LOAD, PUSH, POP
  <2> QED
    BY <1>5, <2>1 DEF AccessSize
<1> QED
  BY <1>4, <1>5

(* What it loads. *)
LEMMA SimulatorLoads ==
    ASSUME Typed, executed = instruction, AccessFits,
           \A a \in 0..(RamSize - 1) : aloneRam[a] = RamByte(a)
    PROVE  Alone!loadWordRAM(Accessed, AccessSize) = {Loaded}
<1> DEFINE n == AccessSize
           p == Accessed
           f == [k \in 0..(n - 1) |-> aloneRam[p + k] * 2^(8 * k)]
<1>1. /\ LogSize \in 0..3 /\ 2^LogSize = n /\ n \in 1..8 /\ 2^LogSize <= WordBytes
      /\ p \in Nat /\ (p % 2^LogSize) = 0 /\ p + n <= RamSize /\ RamSize \in Nat
      /\ 8 * n <= HostBits /\ HostBits \in Nat
  BY AccessShape, HostType
<1>2. Loaded = Taken(p, LogSize)
  BY DEF Loaded, Accessed
<1>3. /\ Loaded \in 0..(2^(8 * n) - 1)
      /\ \A j \in 0..(n - 1) : ((Loaded \div 2^(8 * j)) % 256) = RamByte(p + j)
  BY <1>1, <1>2, TakenBytes DEF Typed
<1> HIDE DEF n, p
<1>4. {k \in 0..(n - 1) : 8 * k < HostBits} = 0..(n - 1)
  BY <1>1
<1>5. \A k \in 0..(n - 1) : f[k] = ((Loaded \div 2^(8 * k)) % 256) * 2^(8 * k)
  <2> TAKE k \in 0..(n - 1)
  <2>1. p + k \in 0..(RamSize - 1)
    BY <1>1
  <2> QED
    BY <1>3, <2>1
<1>6. 2^(8 * n) \in Nat \ {0} /\ 2^(8 * n) <= HostMod /\ HostMod \in Nat \ {0}
  <2> DEFINE t == 8 * n
  <2>1. t \in Nat /\ t <= HostBits
    BY <1>1
  <2> HIDE DEF t
  <2> QED
    BY <1>1, <2>1, PowPositive, PowMonotone DEF HostMod, t
<1> DEFINE q == 2^(8 * n)
<1>7. SumFunctionOnSet(f, 0..(n - 1)) = (Loaded % q)
  <2>1. Loaded \in Nat /\ n \in Nat
    BY <1>1, <1>3, <1>6
  <2> HIDE DEF f
  <2> QED
    BY <1>5, <2>1, SumOfBytes
<1>8. Loaded \in Nat /\ (Loaded % q) = Loaded /\ (Loaded % HostMod) = Loaded
  <2> HIDE DEF q
  <2> QED
    BY <1>3, <1>6 DEF q
<1>9. Alone!SumFunction(f) = Loaded
  <2>1. Alone!SumFunction(f) = SumFunctionOnSet(f, DOMAIN f)
    BY DEF Alone!SumFunction, Alone!SumFunctionOnSet, SumFunctionOnSet,
           Alone!FoldFunctionOnSet, FoldFunctionOnSet, Alone!MapThenFoldSet, MapThenFoldSet
  <2> QED
    BY <1>7, <1>8, <2>1
<1>10. Alone!loadWordRAM(p, n) =
         {Alone!SumFunction([k \in {k \in 0..(n - 1) : 8 * k < HostBits} |->
                               aloneRam[p + k] * 2^(8 * k)]) % Alone!HostMod}
  <2>1. ~(p + n > RamSize)
    BY <1>1
  <2> QED
    BY <2>1, Zenon DEF Alone!loadWordRAM
<1>11. Alone!loadWordRAM(p, n) = {Alone!SumFunction(f) % HostMod}
  BY <1>4, <1>10, SimulatorWords, Zenon
<1> QED
  BY <1>8, <1>9, <1>11 DEF n, p

(* What it stores. *)
LEMMA SimulatorStores ==
    ASSUME Typed, IInv, StoredInRam, ~control.ram_not_ready, AccessFits,
           Stores(executed), executed \notin {CALL, ATOM},
           aloneRam' \in Alone!putRAMWord(Accessed, AccessSize, WR)
    PROVE  \A a \in 0..(RamSize - 1) :
              aloneRam'[a] = IF a \in Written THEN RamByte(a) ELSE aloneRam[a]
<1> DEFINE n == AccessSize
           p == Accessed
<1>1. executed = instruction
  BY DEF IInv, InstructionAtPC
<1>2. /\ LogSize \in 0..3 /\ 2^LogSize = n /\ n \in 1..8 /\ 2^LogSize <= WordBytes
      /\ p \in Nat /\ (p % 2^LogSize) = 0 /\ p + n <= RamSize /\ RamSize \in Nat
      /\ HostMod \in Nat /\ RamSize <= HostMod
  BY <1>1, AccessShape
<1>3. Stored = p /\ StoredValue = WR /\ StoredBits = BitsOf(p, LogSize)
  <2>1. Stored = p
    BY <1>1 DEF Stored, Accessed
  <2>2. StoredValue = WR
    BY <1>1 DEF StoredValue
  <2>3. StoredBits = BitsOf(p, LogSize)
    <3>1. instruction \notin {POP, RET}
      BY <1>1 DEF Stores, Opperand, STR, PUSH, CALL, ATOM, POP, RET
    <3> QED
      BY <2>1, <3>1, Zenon DEF StoredBits, LogSize
  <2> QED
    BY <2>1, <2>2, <2>3
<1>4. Written = p..(p + n - 1)
  BY DEF Written
<1>5. WR \in Word
  BY RegisterTypes DEF Typed
<1> HIDE DEF n, p
<1>6. ASSUME NEW j \in 0..(n - 1)
      PROVE  RamByte(p + j) = (ShiftRight(WR, 8 * j) % 256)
  <2>1. WordIndex(p) \in DOMAIN ram
    BY <1>2, IndexInRam DEF Typed, Memories
  <2>2. IsStored(ram[WordIndex(p)])
    BY <1>1, <1>3, <2>1 DEF StoredInRam, Ready
  <2>3. InRam(WR, p, LogSize)
    BY <1>3, <2>2 DEF IsStored, InRam
  <2>4. /\ j \in 0..(2^LogSize - 1) /\ p + 2^LogSize <= RamSize
        /\ p \in Nat /\ LogSize \in 0..3 /\ 2^LogSize <= WordBytes /\ (p % 2^LogSize) = 0
    BY <1>2
  <2>5. Memories
    BY DEF Typed
  <2>6. \A i \in 0..(2^LogSize - 1) : RamByte(p + i) = (ShiftRight(WR, 8 * i) % 256)
    BY <1>5, <2>3, <2>4, <2>5, PutBytes
  <2> QED
    BY <2>4, <2>6
<1>7. aloneRam' = [a \in 0..(RamSize - 1) |->
                     IF Alone!Offset(a, p) < n
                     THEN ShiftRight(WR, 8 * (Alone!Offset(a, p) % n)) % 256
                     ELSE aloneRam[a]]
  <2>1. aloneRam' \in Alone!putRAMWord(p, n, WR) /\ ~(n > 8)
    BY <1>2 DEF n, p
  <2>2. \A a, b : Alone!ShiftRight(a, b) = ShiftRight(a, b)
    BY SimulatorWords
  <2> QED
    BY <2>1, <2>2 DEF Alone!putRAMWord, Alone!Addresses
<1>8. ASSUME NEW a \in 0..(RamSize - 1)
      PROVE  aloneRam'[a] = IF a \in Written THEN RamByte(a) ELSE aloneRam[a]
  <2>1. Alone!Offset(a, p) = ((a - p) % HostMod)
    BY SimulatorWords DEF Alone!Offset
  <2>2. CASE a \in Written
    <3> DEFINE j == a - p
    <3>1. j \in 0..(n - 1) /\ p + j = a /\ j < HostMod
      BY <1>2, <1>4, <2>2
    <3> HIDE DEF j
    <3>2. Alone!Offset(a, p) = j /\ (j % n) = j
      BY <1>2, <2>1, <3>1 DEF j
    <3>3. aloneRam'[a] = (ShiftRight(WR, 8 * j) % 256)
      BY <1>2, <1>7, <3>1, <3>2
    <3> QED
      BY <1>6, <2>2, <3>1, <3>3
  <2>3. CASE a \notin Written
    <3>1. ~(Alone!Offset(a, p) < n)
      <4>1. CASE a >= p
        BY <1>2, <1>4, <2>1, <2>3, <4>1
      <4>2. CASE a < p
        <5> DEFINE d == a - p
                   e == a - p + HostMod
        <5>1. e \in 0..(HostMod - 1) /\ e >= n
          BY <1>2, <4>2
        <5>2. (d % HostMod) = e
          BY <1>2, <4>2, <5>1
        <5> QED
          BY <1>2, <2>1, <5>1, <5>2
      <4> QED
        BY <1>2, <4>1, <4>2
    <3> QED
      BY <1>7, <2>3, <3>1
  <2> QED
    BY <2>2, <2>3
<1> QED
  BY <1>8

(* The addresses of a store are not in the word of the PC. *)
LEMMA NotWritten ==
    ASSUME Typed, executed = instruction, AccessFits, Stores(executed)
    PROVE  PC \notin Written
<1> SUFFICES ASSUME PC \in Written PROVE FALSE
  OBVIOUS
<1>1. /\ LogSize \in 0..3 /\ 2^LogSize = AccessSize /\ 2^LogSize <= WordBytes /\ AccessSize \in 1..8
      /\ Accessed \in Nat /\ (Accessed % 2^LogSize) = 0
  BY AccessShape
<1> DEFINE j == PC - Accessed
<1>2. PC \in Nat
  BY RegisterTypes, WordWidth DEF Typed, Word
<1>3. j \in 0..(2^LogSize - 1) /\ Accessed + j = PC
  BY <1>1, <1>2 DEF Written
<1> HIDE DEF j
<1>4. (Accessed + j) \div WordBytes = Accessed \div WordBytes
  BY <1>1, <1>3, InOneWord
<1> QED
  BY <1>3, <1>4 DEF AccessFits, WordIndex

(* What the simulator executes. *)
LEMMA SimulatorFetches ==
    ASSUME IInv, Typed, AgreeBut(Written), Alike(executed), ~RegisterOnly(executed) => AccessFits,
           ~control.ram_not_ready, PC < RamSize,
           Alone!RunInst
    PROVE  /\ RegisterOnly(executed) => Alone!RegisterInst(executed)
           /\ ~RegisterOnly(executed) => Alone!MemoryInst(executed)
<1>1. executed \in Byte /\ PC \in 0..(RamSize - 1) /\ executed = instruction
  <2>1. RamSize \in Nat /\ PC \in Nat /\ executed \in Byte /\ executed = instruction
    BY RegisterTypes, RtlAssumption, WordWidth DEF Typed, Registers, Word, IInv, InstructionAtPC
  <2> QED
    BY <2>1
<1>2. RegisterOnly(executed) => ~Stores(executed)
  BY DEF RegisterOnly, Stores, Opperand, STR, PUSH, CALL, ATOM, READ,
     CPY, SET, ADD, AND, OR, XOR, NOT, LSL, LSR, EQ, LES, JIF, CC2, CMPNOT, DEBUG
<1>3. PC \notin Written
  <2>1. CASE Stores(executed)
    BY <1>1, <1>2, <2>1, NotWritten
  <2>2. CASE ~Stores(executed)
    BY <2>2 DEF Written
  <2> QED
    BY <2>1, <2>2
<1>4. executed = ByteAt(PC)
  <2>1. Stores(executed) => WordIndex(Stored) # WordIndex(PC)
    BY <1>1, <1>2 DEF AccessFits, Stored, Accessed
  <2> QED
    BY <1>1, <2>1 DEF IInv, InstructionAtPC, Executing
<1>5. aloneRam[PC] = executed
  BY <1>1, <1>3, <1>4, ByteOfRam DEF AgreeBut, Typed
<1>6. Alone!Fetched = {executed}
  BY <1>1, <1>5 DEF Alone!Fetched, Alone!Addresses, Alone!PC, Alone!PC_REG, PC, PC_REG, AgreeBut
<1>7. Alone!RegisterInst(executed) \/ Alone!MemoryInst(executed) \/ Alone!ModeInst(executed)
  BY <1>6, Zenon DEF Alone!RunInst
<1>8. Alone!Opperand(executed) = Opperand(executed)
  BY DEF Alone!Opperand, Opperand
<1>9. RegisterOnly(executed) => ~Alone!MemoryInst(executed)
  <2>1. RegisterOnly(executed) =>
          /\ Opperand(executed) \notin {Alone!STR, Alone!LOAD}
          /\ executed \notin {Alone!ATOM, Alone!PUSH, Alone!POP, Alone!CALL, Alone!RET}
    BY <1>1 DEF Alone!STR, Alone!LOAD, Alone!ATOM, Alone!PUSH,
     Alone!POP, Alone!CALL, Alone!RET, RegisterOnly, Opperand, READ, CPY, SET, ADD, AND, OR,
     XOR, NOT, LSL, LSR, EQ, LES, JIF, CC2, CMPNOT, DEBUG, Byte
  <2> QED
    BY <1>8, <2>1, Zenon DEF Alone!MemoryInst, Alone!Str, Alone!Load, Alone!Atom, Alone!Push,
       Alone!Pop, Alone!Call, Alone!Ret
<1>10. ~RegisterOnly(executed) => ~Alone!RegisterInst(executed)
  <2> SUFFICES ASSUME ~RegisterOnly(executed)
               PROVE  ~Alone!RegisterInst(executed)
    OBVIOUS
  <2>1. Opperand(executed) \in {STR, LOAD} \/ executed \in {PUSH, POP}
    BY DEF Alike
  <2>2. /\ Opperand(executed) \notin {Alone!SET, Alone!READ, Alone!CPY, Alone!ADD, Alone!AND,
             Alone!OR, Alone!XOR, Alone!NOT, Alone!LSL, Alone!LSR, Alone!EQ, Alone!LES}
        /\ executed \notin {Alone!CC2, Alone!CMPNOT, Alone!JIF, Alone!DEBUG}
    BY <1>1, <2>1 DEF Opperand, STR, LOAD, PUSH, POP, Alone!SET, Alone!READ, Alone!CPY,
       Alone!ADD, Alone!AND, Alone!OR, Alone!XOR, Alone!NOT, Alone!LSL, Alone!LSR, Alone!EQ,
       Alone!LES, Alone!CC2, Alone!CMPNOT, Alone!JIF, Alone!DEBUG, Byte
  <2>3. ~\E n \in Alone!Ints : Alone!GetInt(executed, n) \/ Alone!GetIntStack(executed, n)
    BY <1>1, <2>1 DEF Alone!GetInt, Alone!GetIntStack, Alone!GETINT, Alone!GETINTSTACK,
       Alone!Ints, Opperand, STR, LOAD, PUSH, POP, Byte
  <2>4. ~(\/ Alone!Set(executed) \/ Alone!Read(executed) \/ Alone!Cpy(executed)
          \/ Alone!Alu(executed) \/ Alone!Compare(executed) \/ Alone!Jif(executed)
          \/ Alone!Debug(executed)
          \/ \E n \in Alone!Ints :
                Alone!GetInt(executed, n) \/ Alone!GetIntStack(executed, n))
    BY <1>8, <2>2, <2>3, Zenon DEF Alone!Set, Alone!Read, Alone!Cpy, Alone!Alu,
       Alone!Compare, Alone!Jif, Alone!Debug
  <2> QED
    BY <2>4, Zenon DEF Alone!RegisterInst
<1>11. ~Alone!ModeInst(executed)
  <2>1. /\ executed \notin {Alone!QUIT, Alone!TBM, Alone!RETINT}
        /\ \A n \in Alone!Ints :
             executed \notin {Alone!SETINT + n, Alone!SETINTSTACK + n, Alone!SOFTINT + n}
    BY <1>1 DEF Alone!Ints, Alone!QUIT, Alone!TBM, Alone!RETINT, Alone!SETINT,
       Alone!SETINTSTACK, Alone!SOFTINT, Alike, RegisterOnly, Opperand, READ, CPY, SET, ADD, AND,
       OR, XOR, NOT, LSL, LSR, EQ, LES, JIF, CC2, CMPNOT, DEBUG, STR, LOAD, PUSH, POP
  <2> QED
    BY <2>1, Zenon DEF Alone!ModeInst, Alone!Quit, Alone!Tbm, Alone!RetInt, Alone!SetInt,
       Alone!SetIntStack, Alone!SoftInt
<1> QED
  BY <1>7, <1>9, <1>10, <1>11

(* An access that fits is made, and is no trap. *)
LEMMA SimulatorAllows ==
    ASSUME Typed, executed = instruction, AccessFits, aloneReg = registers,
           ~Bit(aloneReg[SR_REG], SR_TRAP), PC + 1 < WordMod
    PROVE  /\ Alone!AccessValid(Accessed, AccessSize)
           /\ Alone!LevelAfter(Accessed, AccessSize) = aloneLevel
           /\ Alone!PCAfter(Accessed, AccessSize) = NextPC
<1>1. Alone!HostMod = HostMod /\ \A v, w : Alone!Bit(v, w) = Bit(v, w)
  BY SimulatorWords
<1>2. /\ AccessSize < HostMod /\ Accessed + AccessSize <= RamSize /\ RamSize <= HostMod
      /\ Accessed \in Nat /\ AccessSize \in 1..8 /\ RamSize \in Nat /\ HostMod \in Nat
  BY AccessShape DEF AccessFits
<1>3. Alone!AccessValid(Accessed, AccessSize)
  <2> DEFINE e == Accessed + AccessSize
  <2>1. e \in Nat /\ e <= RamSize /\ HostMod > 0
    BY <1>2
  <2> HIDE DEF e
  <2>2. (e % HostMod) <= e
    BY <1>2, <2>1
  <2>3. (e % HostMod) <= RamSize
    <3>1. (e % HostMod) \in Nat
      BY <1>2, <2>1
    <3> QED
      BY <1>2, <2>1, <2>2, <3>1
  <2> QED
    BY <1>1, <1>2, <2>3, Zenon DEF Alone!AccessValid, e
<1>4. ~Alone!Trap(Accessed, AccessSize)
  BY <1>1 DEF Alone!Trap, Alone!SR, Alone!SR_REG, Alone!SR_TRAP, SR_REG, SR_TRAP
<1>5. Alone!NextPC = NextPC
  <2>1. PC + 1 \in Nat /\ PC + 1 < WordMod /\ WordMod <= HostMod /\ WordMod \in Nat /\ HostMod \in Nat
    BY RegisterTypes, WordWidth, HostType, PowMonotone DEF Typed, Word, WordMod, HostMod
  <2>2. Alone!PC = PC
    BY DEF Alone!PC, PC, Alone!PC_REG, PC_REG
  <2> QED
    BY <1>1, <2>1, <2>2 DEF NextPC, Alone!NextPC
<1>6. Alone!PCInAccess(Accessed, AccessSize) = Alone!PC
  BY <1>4, Zenon DEF Alone!PCInAccess
<1>7. Alone!PCAfter(Accessed, AccessSize) = Alone!NextPC
  BY <1>6, Zenon DEF Alone!PCAfter, Alone!NextPC
<1> QED
  BY <1>3, <1>4, <1>5, <1>7, Zenon DEF Alone!LevelAfter

(* Two functions that agree. *)
LEMMA SameFunction ==
    ASSUME NEW S, NEW f, NEW g, f = [x \in S |-> f[x]], g = [x \in S |-> g[x]],
           \A x \in S : f[x] = g[x]
    PROVE  f = g
OBVIOUS

(* The address of each kind of access. *)
LEMMA AddressOf ==
    ASSUME NEW i \in Byte
    PROVE  /\ Opperand(i) \in {STR, LOAD} =>
                AccessAddr(i) = registers[RegOf(i)] /\ i \notin {PUSH, POP, CALL, RET, ATOM}
           /\ i = PUSH => AccessAddr(i) = SP
           /\ i = POP => AccessAddr(i) = (SP - WordBytes) % WordMod
<1> USE DEF AccessAddr, Opperand, STR, LOAD, PUSH, POP, CALL, RET, ATOM, Byte
<1>1. CASE Opperand(i) \in {STR, LOAD}
  BY <1>1
<1>2. CASE i = PUSH
  BY <1>2
<1>3. CASE i = POP
  BY <1>3
<1> QED
  BY <1>1, <1>2, <1>3

(* The four accesses in the simulator, by what they are in the processor. *)
LEMMA SimulatorAccess ==
    ASSUME Typed, executed = instruction, AccessesAlike(executed), AccessFits,
           AgreeBut(Written), ~Bit(aloneReg[SR_REG], SR_TRAP), PC + 1 < WordMod,
           Alone!MemoryInst(executed)
    PROVE  /\ UNCHANGED <<aloneByteMode, aloneLevel>>
           /\ IF Loads(executed)
              THEN /\ UNCHANGED aloneRam
                   /\ \E v \in Alone!loadWordRAM(Accessed, AccessSize) :
                        aloneReg' = [registers EXCEPT
                                       ![SP_REG] = IF executed = POP THEN (SP - WordBytes) % WordMod
                                                   ELSE SP,
                                       ![PC_REG] = NextPC,
                                       ![WR_REG] = v]
              ELSE /\ aloneRam' \in Alone!putRAMWord(Accessed, AccessSize, WR)
                   /\ aloneReg' = [registers EXCEPT
                                     ![SP_REG] = IF executed = PUSH THEN (SP + WordBytes) % WordMod
                                                 ELSE SP,
                                     ![PC_REG] = NextPC]
<1>1. /\ aloneReg = registers /\ aloneByteMode = byte_mode /\ aloneLevel.level = level
      /\ executed \in Byte /\ registers \in [0..15 -> Word]
  BY DEF AgreeBut, Typed, Registers
<1>2. /\ Alone!AccessValid(Accessed, AccessSize)
      /\ Alone!LevelAfter(Accessed, AccessSize) = aloneLevel
      /\ Alone!PCAfter(Accessed, AccessSize) = NextPC
  BY <1>1, SimulatorAllows
<1>3. /\ executed \notin {PUSH, POP, CALL, RET} => Alone!byteExchanged(FALSE) = {AccessSize}
      /\ executed \in {PUSH, POP} => AccessSize = WordBytes
  BY <1>1, SimulatorSize
<1>4. /\ Alone!Opperand(executed) = Opperand(executed) /\ Alone!RegOf(executed) = RegOf(executed)
      /\ Alone!WR = WR /\ Alone!SP = SP
      /\ Alone!Above(SP) = (SP + WordBytes) % WordMod
      /\ Alone!Below(SP) = (SP - WordBytes) % WordMod
      /\ UNCHANGED <<aloneByteMode, aloneActive, aloneRoutine>>
  <2>1. Alone!WordMod = WordMod
    BY SimulatorWords
  <2> QED
    BY <1>1, <2>1 DEF Alone!Opperand, Opperand, Alone!RegOf, RegOf, Alone!WR, WR, Alone!SP, SP,
       Alone!WR_REG, WR_REG, Alone!SP_REG, SP_REG, Alone!Above, Alone!Below, Alone!MemoryInst
<1>5. SP = registers[SP_REG] /\ registers = [registers EXCEPT ![SP_REG] = SP]
  BY <1>1 DEF SP, SP_REG
<1>6. CASE Alone!Str(executed)
  <2>1. Opperand(executed) = STR /\ ~Loads(executed) /\ executed \notin {PUSH, POP}
    BY <1>1, <1>4, <1>6 DEF Alone!Str, Alone!STR, STR, Loads, LOAD, POP, PUSH, Opperand, Byte
  <2>2. Accessed = registers[RegOf(executed)] /\ executed \notin {PUSH, POP, CALL, RET}
    BY <1>1, <2>1, AddressOf DEF Accessed
  <2>3. /\ aloneRam' \in Alone!putRAMWord(Accessed, AccessSize, WR)
        /\ aloneLevel' = Alone!LevelAfter(Accessed, AccessSize)
        /\ aloneReg' = [registers EXCEPT ![PC_REG] = Alone!PCAfter(Accessed, AccessSize)]
    BY <1>1, <1>2, <1>3, <1>4, <1>6, <2>2 DEF Alone!Str, Alone!PC_REG, PC_REG
  <2> QED
    BY <1>2, <1>4, <1>5, <2>1, <2>3
<1>7. CASE Alone!Load(executed)
  <2>1. Opperand(executed) = LOAD /\ Loads(executed) /\ executed \notin {PUSH, POP}
    BY <1>1, <1>4, <1>7 DEF Alone!Load, Alone!LOAD, Loads, LOAD, POP, PUSH, Opperand, Byte
  <2>2. Accessed = registers[RegOf(executed)] /\ executed \notin {PUSH, POP, CALL, RET}
    BY <1>1, <2>1, AddressOf DEF Accessed
  <2>3. /\ \E v \in Alone!loadWordRAM(Accessed, AccessSize) :
             aloneReg' = [registers EXCEPT ![WR_REG] = v,
                                           ![PC_REG] = Alone!PCAfter(Accessed, AccessSize)]
        /\ aloneLevel' = Alone!LevelAfter(Accessed, AccessSize)
        /\ UNCHANGED aloneRam
    BY <1>1, <1>2, <1>3, <1>4, <1>7, <2>2 DEF Alone!Load, Alone!PC_REG, PC_REG,
       Alone!WR_REG, WR_REG
  <2>4. PICK v \in Alone!loadWordRAM(Accessed, AccessSize) :
           aloneReg' = [registers EXCEPT ![WR_REG] = v, ![PC_REG] = NextPC]
    BY <1>2, <2>3
  <2>5. aloneReg' = [registers EXCEPT ![SP_REG] = SP, ![PC_REG] = NextPC, ![WR_REG] = v]
    <3> DEFINE f == [registers EXCEPT ![WR_REG] = v, ![PC_REG] = NextPC]
               g == [registers EXCEPT ![SP_REG] = SP, ![PC_REG] = NextPC, ![WR_REG] = v]
    <3>1. /\ f = [r \in 0..15 |-> f[r]] /\ g = [r \in 0..15 |-> g[r]]
          /\ \A r \in 0..15 : f[r] = g[r]
      <4>1. registers \in [0..15 -> Word] /\ SP = registers[SP_REG]
        BY <1>1, <1>5
      <4>2. f = [r \in 0..15 |-> f[r]]
        BY <4>1
      <4>3. g = [r \in 0..15 |-> g[r]]
        BY <4>1
      <4>4. ASSUME NEW r \in 0..15 PROVE f[r] = g[r]
        BY <4>1 DEF SP_REG, PC_REG, WR_REG
      <4> QED
        BY <4>2, <4>3, <4>4
    <3>2. aloneReg' = f
      BY <2>4
    <3> HIDE DEF f, g
    <3>3. aloneReg' = g
      BY <3>1, <3>2, SameFunction
    <3> QED
      BY <3>3 DEF g
  <2>6. aloneReg' = [registers EXCEPT ![SP_REG] = IF executed = POP THEN (SP - WordBytes) % WordMod
                                                  ELSE SP,
                                      ![PC_REG] = NextPC, ![WR_REG] = v]
    BY <2>1, <2>5
  <2>7. \E x \in Alone!loadWordRAM(Accessed, AccessSize) :
           aloneReg' = [registers EXCEPT ![SP_REG] = IF executed = POP THEN (SP - WordBytes) % WordMod
                                                     ELSE SP,
                                         ![PC_REG] = NextPC, ![WR_REG] = x]
    <3> WITNESS v \in Alone!loadWordRAM(Accessed, AccessSize)
    <3> QED
      BY <2>6, Zenon
  <2> QED
    BY <1>2, <1>4, <2>1, <2>3, <2>7, Zenon
<1>8. CASE Alone!Push(executed)
  <2>1. executed = PUSH /\ ~Loads(executed)
    BY <1>8 DEF Alone!Push, Alone!PUSH, PUSH, Loads, Opperand, LOAD, POP
  <2>2. Accessed = SP /\ AccessSize = WordBytes
    BY <1>1, <1>3, <2>1, AddressOf DEF Accessed
  <2>3. /\ aloneRam' \in Alone!putRAMWord(Accessed, AccessSize, WR)
        /\ aloneLevel' = Alone!LevelAfter(Accessed, AccessSize)
        /\ aloneReg' = [registers EXCEPT ![SP_REG] = Alone!Above(SP),
                                         ![PC_REG] = Alone!PCAfter(Accessed, AccessSize)]
    BY <1>1, <1>2, <1>4, <1>8, <2>2 DEF Alone!Push, Alone!PC_REG, PC_REG, Alone!SP_REG, SP_REG
  <2> QED
    BY <1>2, <1>4, <2>1, <2>3
<1>9. CASE Alone!Pop(executed)
  <2>1. executed = POP /\ Loads(executed)
    BY <1>9 DEF Alone!Pop, Alone!POP, POP, Loads
  <2>2. Accessed = Alone!Below(SP) /\ AccessSize = WordBytes
    BY <1>1, <1>3, <1>4, <2>1, AddressOf DEF Accessed
  <2>3. /\ \E v \in Alone!loadWordRAM(Accessed, AccessSize) :
             aloneReg' = [registers EXCEPT ![SP_REG] = Alone!Below(SP),
                                           ![WR_REG] = v,
                                           ![PC_REG] = Alone!PCAfter(Accessed, AccessSize)]
        /\ aloneLevel' = Alone!LevelAfter(Accessed, AccessSize)
        /\ UNCHANGED aloneRam
    BY <1>1, <1>2, <1>4, <1>9, <2>2 DEF Alone!Pop, Alone!PC_REG, PC_REG,
       Alone!WR_REG, WR_REG, Alone!SP_REG, SP_REG
  <2>4. PICK v \in Alone!loadWordRAM(Accessed, AccessSize) :
           aloneReg' = [registers EXCEPT ![SP_REG] = Alone!Below(SP), ![WR_REG] = v,
                                         ![PC_REG] = NextPC]
    BY <1>2, <2>3
  <2>5. aloneReg' = [registers EXCEPT ![SP_REG] = (SP - WordBytes) % WordMod,
                                      ![PC_REG] = NextPC, ![WR_REG] = v]
    <3> DEFINE s == (SP - WordBytes) % WordMod
               f == [registers EXCEPT ![SP_REG] = s, ![WR_REG] = v, ![PC_REG] = NextPC]
               g == [registers EXCEPT ![SP_REG] = s, ![PC_REG] = NextPC, ![WR_REG] = v]
    <3>1. aloneReg' = f
      BY <1>4, <2>4
    <3> HIDE DEF s
    <3>2. /\ f = [r \in 0..15 |-> f[r]] /\ g = [r \in 0..15 |-> g[r]]
          /\ \A r \in 0..15 : f[r] = g[r]
      <4>1. registers \in [0..15 -> Word]
        BY <1>1
      <4>2. f = [r \in 0..15 |-> f[r]]
        BY <4>1
      <4>3. g = [r \in 0..15 |-> g[r]]
        BY <4>1
      <4>4. ASSUME NEW r \in 0..15 PROVE f[r] = g[r]
        BY <4>1 DEF SP_REG, PC_REG, WR_REG
      <4> QED
        BY <4>2, <4>3, <4>4
    <3> HIDE DEF f, g
    <3>3. aloneReg' = g
      BY <3>1, <3>2, SameFunction
    <3> QED
      BY <3>3 DEF g, s
  <2>6. aloneReg' = [registers EXCEPT ![SP_REG] = IF executed = POP THEN (SP - WordBytes) % WordMod
                                                  ELSE SP,
                                      ![PC_REG] = NextPC, ![WR_REG] = v]
    BY <2>1, <2>5
  <2>7. \E x \in Alone!loadWordRAM(Accessed, AccessSize) :
           aloneReg' = [registers EXCEPT ![SP_REG] = IF executed = POP THEN (SP - WordBytes) % WordMod
                                                     ELSE SP,
                                         ![PC_REG] = NextPC, ![WR_REG] = x]
    <3> WITNESS v \in Alone!loadWordRAM(Accessed, AccessSize)
    <3> QED
      BY <2>6, Zenon
  <2> QED
    BY <1>2, <1>4, <2>1, <2>3, <2>7, Zenon
<1>10. executed \notin {Alone!ATOM, Alone!CALL, Alone!RET}
  BY <1>1 DEF AccessesAlike, Opperand, STR, LOAD, PUSH, POP, Alone!ATOM, Alone!CALL, Alone!RET,
     Byte
<1> QED
  BY <1>6, <1>7, <1>8, <1>9, <1>10, Zenon DEF Alone!MemoryInst, Alone!Atom, Alone!Call, Alone!Ret

(* So that an access that fits leaves the same registers and bytes. *)
LEMMA SimulatorAccesses ==
    ASSUME Typed, IInv, StoredInRam, ~control.ram_not_ready, AccessesAlike(executed), AccessFits,
           AgreeBut(Written), ~Bit(aloneReg[SR_REG], SR_TRAP), PC + 1 < WordMod,
           Alone!MemoryInst(executed)
    PROVE  /\ aloneReg' = Accessing
           /\ UNCHANGED <<aloneByteMode, aloneLevel>>
           /\ \A a \in 0..(RamSize - 1) :
                 aloneRam'[a] = IF a \in Written THEN RamByte(a) ELSE aloneRam[a]
<1>1. executed = instruction /\ executed \in Byte
  BY DEF IInv, InstructionAtPC, Typed, Registers
<1> DEFINE sp == IF executed = PUSH THEN (SP + WordBytes) % WordMod
                 ELSE IF executed = POP THEN (SP - WordBytes) % WordMod
                 ELSE SP
<1>2. Accessing = [registers EXCEPT ![SP_REG] = sp, ![PC_REG] = NextPC,
                                    ![WR_REG] = IF Loads(executed) THEN Loaded ELSE WR]
  BY DEF Accessing
<1>3. CASE Loads(executed)
  <2>1. ~Stores(executed) /\ Written = {} /\ executed # PUSH
    BY <1>1, <1>3, Kinds DEF Written, Loads, Opperand, LOAD, POP, PUSH
  <2>2. \A a \in 0..(RamSize - 1) : aloneRam[a] = RamByte(a)
    BY <2>1 DEF AgreeBut
  <2>3. Alone!loadWordRAM(Accessed, AccessSize) = {Loaded}
    BY <1>1, <2>2, SimulatorLoads
  <2>4. /\ UNCHANGED <<aloneByteMode, aloneLevel, aloneRam>>
        /\ aloneReg' = [registers EXCEPT ![SP_REG] = sp, ![PC_REG] = NextPC, ![WR_REG] = Loaded]
    BY <1>1, <1>3, <2>1, <2>3, SimulatorAccess
  <2> QED
    BY <1>2, <1>3, <2>1, <2>4
<1>4. CASE ~Loads(executed)
  <2>1. Stores(executed) /\ executed \notin {CALL, ATOM, POP}
    BY <1>1, <1>4 DEF AccessesAlike, Stores, Loads, Opperand, STR, LOAD, PUSH, POP, CALL, ATOM, Byte
  <2>2. /\ UNCHANGED <<aloneByteMode, aloneLevel>>
        /\ aloneRam' \in Alone!putRAMWord(Accessed, AccessSize, WR)
        /\ aloneReg' = [registers EXCEPT ![SP_REG] = sp, ![PC_REG] = NextPC]
    BY <1>1, <1>4, <2>1, SimulatorAccess
  <2>3. Accessing = aloneReg'
    <3> DEFINE moved == [registers EXCEPT ![SP_REG] = sp, ![PC_REG] = NextPC]
    <3>1. registers \in [0..15 -> Word] /\ WR = registers[WR_REG]
      BY DEF Typed, Registers, WR
    <3>2. moved = [moved EXCEPT ![WR_REG] = WR]
      <4> HIDE DEF sp
      <4>1. moved[WR_REG] = WR
        BY <3>1 DEF SP_REG, PC_REG, WR_REG
      <4>2. moved = [r \in 0..15 |-> moved[r]]
        BY <3>1 DEF SP_REG, PC_REG
      <4> HIDE DEF moved
      <4> QED
        BY <4>1, <4>2 DEF WR_REG
    <3>3. Accessing = [moved EXCEPT ![WR_REG] = WR]
      BY <1>2, <1>4
    <3> QED
      BY <2>2, <3>2, <3>3
  <2> QED
    BY <2>1, <2>2, <2>3, SimulatorStores
<1> QED
  BY <1>3, <1>4

(* None of these instructions changes the rest of the state at its end. *)
LEMMA StillMachine ==
    ASSUME IInv, Typed, Next, Tick, Alike(executed), ~control.ram_not_ready,
           ~interrupt_ctrl!new_int
    PROVE  UNCHANGED <<byte_mode, level, ram>>
<1>1. instruction = executed /\ byte_mode \in BOOLEAN
  BY DEF IInv, Timing, Shape, InstructionAtPC
<1>2. byte_mode' = byte_mode
  BY <1>1 DEF Tick, ram_interface!Clock, ram_interface!TBM, Alike, RegisterOnly, Opperand,
     STR, LOAD, PUSH, POP, READ, CPY, SET, ADD, AND, OR, XOR, NOT, LSL, LSR, EQ, LES, JIF, CC2,
     CMPNOT, DEBUG
<1>3. executed # interrupt_ctrl!RETINT
  BY DEF interrupt_ctrl!RETINT, Alike, RegisterOnly, Opperand, STR, LOAD, PUSH, POP, READ, CPY,
     SET, ADD, AND, OR, XOR, NOT, LSL, LSR, EQ, LES, JIF, CC2, CMPNOT, DEBUG
<1>4. level' = level
  BY <1>3 DEF Tick, interrupt_ctrl!Clock, interrupt_ctrl!Enter, interrupt_ctrl!Return,
     interrupt_ctrl!Returning, interrupt_ctrl!Stay, interrupt_ctrl!Redirect,
     interrupt_ctrl!nestVars
<1>5. ~writer.write_ready
  BY DEF IInv, Timing, Phases, Pipeline
<1>6. ram' = ram
  BY <1>5 DEF Next, ClockRam
<1> QED
  BY <1>2, <1>4, <1>6

(* One instruction, from the same state to the same state. *)
LEMMA StepAgrees ==
    ASSUME IInv, Typed, Result, LoadOnBus, StoredInRam,
           PairNext, Completes, alonePhase = "run_inst", ~interrupt_ctrl!new_int,
           PC < RamSize, PC + 1 < WordMod,
           \/ RegisterOnly(executed) /\ (Opperand(executed) \in {LSL, LSR} => other_register < 64)
           \/ AccessesAlike(executed) /\ AccessFits,
           AgreeBut(Written)
    PROVE  Agree'
<1>1. Next /\ Alone!RunInst
  BY DEF PairNext
<1>2. Tick /\ ~control.ram_not_ready /\ ~Bit(aloneReg[SR_REG], SR_TRAP)
  BY <1>1 DEF Next, Held, Completes
<1>3. executed \in Byte /\ instruction = executed /\ aloneReg = registers
  BY <1>2 DEF AgreeBut, Typed, Registers, IInv, InstructionAtPC
<1>4. Alike(executed) /\ (~RegisterOnly(executed) => AccessesAlike(executed) /\ AccessFits)
  BY DEF Alike, AccessesAlike
<1>5. /\ RegisterOnly(executed) => Alone!RegisterInst(executed)
      /\ ~RegisterOnly(executed) => Alone!MemoryInst(executed)
  BY <1>1, <1>2, <1>4, SimulatorFetches
<1>6. UNCHANGED <<byte_mode, level, ram>>
  BY <1>1, <1>2, <1>4, StillMachine
<1>7. \A a : RamByte(a)' = RamByte(a)
  BY <1>6 DEF RamByte
<1>8. CASE RegisterOnly(executed)
  <2>1. ~Accesses(executed) /\ Written = {}
    <3>1. ~Stores(executed)
      BY <1>8 DEF RegisterOnly, Stores, Opperand, STR, PUSH, CALL, ATOM, READ,
         CPY, SET, ADD, AND, OR, XOR, NOT, LSL, LSR, EQ, LES, JIF, CC2, CMPNOT, DEBUG
    <3>2. ~Accesses(executed)
      BY <1>8 DEF RegisterOnly, Accesses, Opperand, STR, LOAD, PUSH, POP, CALL, RET, ATOM, READ,
         CPY, SET, ADD, AND, OR, XOR, NOT, LSL, LSR, EQ, LES, JIF, CC2, CMPNOT, DEBUG
    <3> QED
      BY <3>1, <3>2 DEF Written
  <2>2. Opperand(executed) \in {LSL, LSR} => registers[RegOf(executed)] < 64
    BY <1>3, <1>8, <2>1 DEF other_register, AccessesAlike, Accesses
  <2>3. registers' = Carried(executed)
    BY <1>2, <1>8, ProcessorCarries
  <2>4. aloneReg' = Carried(executed)
    BY <1>3, <1>5, <1>8, <2>2, SimulatorCarries
  <2>5. UNCHANGED <<aloneRam, aloneByteMode, aloneLevel>>
    BY <1>5, <1>8 DEF Alone!RegisterInst
  <2> QED
    BY <1>6, <1>7, <2>1, <2>3, <2>4, <2>5 DEF Agree, AgreeBut
<1>9. CASE ~RegisterOnly(executed)
  <2>1. registers' = Accessing
    BY <1>2, <1>4, <1>9, ProcessorAccesses
  <2>2. /\ aloneReg' = Accessing
        /\ UNCHANGED <<aloneByteMode, aloneLevel>>
        /\ \A a \in 0..(RamSize - 1) :
              aloneRam'[a] = IF a \in Written THEN RamByte(a) ELSE aloneRam[a]
    BY <1>2, <1>4, <1>5, <1>9, SimulatorAccesses
  <2>3. \A a \in 0..(RamSize - 1) : aloneRam'[a] = RamByte(a)
    BY <2>2 DEF AgreeBut
  <2> QED
    BY <1>6, <1>7, <2>1, <2>2, <2>3 DEF Agree, AgreeBut
<1> QED
  BY <1>8, <1>9

(* rtl/README.md:5, for one instruction: whatever the width of words, the  *)
(* registers and the memory, the interrupts that came before and the       *)
(* clocks at which enable was low, what an instruction on registers or an  *)
(* access to the memory makes of them in the processor is what it makes    *)
(* of them in the simulator.                                               *)
THEOREM SameComputation ==
    PairSpec /\ []ReturnsFromRoutines /\ []NoneAfterGetInt => InstructionsAgree
<1>1. PairInit => Init
  BY DEF PairInit
<1>2. [PairNext]_pairVars => [Next]_vars
  BY DEF PairNext, pairVars
<1>3. Init => Trapping /\ Result /\ LoadOnBus /\ StoredInRam
  BY DEF Init, ram_interface!Reset, Trapping, Result, LoadOnBus, StoredInRam, Ready
<1>4. IInv /\ Typed /\ NoneAfterGetInt /\ Result /\ [Next]_vars => Result'
  BY StepResult
<1>5. IInv /\ Trapping /\ [Next]_vars => Trapping'
  BY StepTrapping
<1>6. IInv /\ Trapping /\ LoadOnBus /\ [Next]_vars => LoadOnBus'
  BY StepLoadOnBus
<1>7. IInv /\ StoredInRam /\ [Next]_vars => StoredInRam'
  BY StepStoredInRam
<1>8. IInv /\ Typed /\ Result /\ LoadOnBus /\ StoredInRam /\ [PairNext]_pairVars =>
        [ /\ Completes /\ alonePhase = "run_inst" /\ ~interrupt_ctrl!new_int
          /\ PC < RamSize /\ PC + 1 < WordMod
          /\ \/ RegisterOnly(executed)
                /\ (Opperand(executed) \in {LSL, LSR} => other_register < 64)
             \/ AccessesAlike(executed) /\ AccessFits
          /\ AgreeBut(Written)
          => Agree' ]_pairVars
  BY StepAgrees, Zenon
<1> QED
  BY <1>1, <1>2, <1>3, <1>4, <1>5, <1>6, <1>7, <1>8, Invariance, TypesInvariance, PTL
     DEF Spec, PairSpec, InstructionsAgree
=============================================================================
