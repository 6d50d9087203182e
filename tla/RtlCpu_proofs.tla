--------------------------- MODULE RtlCpu_proofs ---------------------------
(***************************************************************************)
(* The bus of the processor, for every program, word size and memory, and  *)
(* whatever enable and the interrupt lines do: an instruction is executed  *)
(* where the PC is, and a store changes its own bytes only.                *)
(***************************************************************************)
EXTENDS RtlProps, TLAPS

Fetching == ~control.instruction_ok /\ ~control.readying_ram /\ control.ram_not_ready

(* Decode, access, ready the CPU, update: the phases of an instruction. *)
Executing == control.instruction_ok \/ control.readying_ram \/ ~control.ram_not_ready

Flags == {"instruction_ok", "inst_mem", "readying_ram", "ram_not_ready", "read_ready_reset"}

ControlShape ==
    /\ DOMAIN control = Flags \cup {"delay"}
    /\ \A flag \in Flags : control[flag] \in BOOLEAN
    /\ control.delay \in 0..3

Shape ==
    /\ ControlShape
    /\ inst_mem_r \in BOOLEAN /\ byte_mode \in BOOLEAN
    /\ ram = [w \in DOMAIN ram |-> ram[w]]

(* The phases exclude one another. *)
Phases ==
    /\ control.instruction_ok => ~control.readying_ram
    /\ control.instruction_ok \/ control.readying_ram => control.ram_not_ready
    /\ Executing => control.delay = 0
    /\ control.inst_mem => control.instruction_ok \/ control.readying_ram
    /\ control.inst_mem /\ control.readying_ram => inst_mem_r

(* Where a read and a write are in the reader and in the writer: a clock   *)
(* after the request, the word is on the bus; a clock later, it is read;   *)
(* and then it is written.                                                 *)
Pipeline ==
    /\ Fetching /\ control.delay = 2 => ~reader.read_request_r
    /\ Fetching /\ control.delay = 3 => reader.new_request_r
    /\ Fetching /\ control.delay = 0 => ~reader.new_request_r
    /\ Executing => ~(reader.new_request_r /\ reader.read_ready)
    /\ Executing /\ ~(control.inst_mem /\ inst_mem_r) =>
         ~reader.new_request_r /\ ~reader.read_ready
    /\ control.readying_ram => ~reader.new_request_r /\ ~reader.read_ready
    /\ writer.write_ready =>
         /\ writer.write_request_r /\ control.inst_mem /\ inst_mem_r
         /\ ~reader.new_request_r /\ ~reader.read_ready

(* The bus carries the address of the fetch or of the store, and what the  *)
(* memory gives is the word at that address.                               *)
WordOnBus == WordIndex(addr) \in DOMAIN ram => data_out_array = ram[WordIndex(addr)]

FetchOnBus ==
    Fetching =>
        /\ control.delay # 1 => addr = PC
        /\ control.delay = 3 => WordOnBus
        /\ control.delay = 0 => reader.data_in_cpu % 256 = ByteAt(PC)

StoreOnBus ==
    control.inst_mem /\ Stores(instruction) =>
        /\ control.instruction_ok => addr = Stored
        /\ control.instruction_ok /\ (reader.new_request_r \/ reader.read_ready) => WordOnBus

WriteOnBus ==
    writer.write_ready =>
        /\ Stores(instruction) /\ addr = Stored
        /\ WordIndex(addr) \in DOMAIN ram =>
             writer.data_out_ram \in {Merged(ram[WordIndex(addr)]), ram[WordIndex(addr)]}

(* The instruction is the one at the PC since it was fetched, or has       *)
(* written in its own word.                                                *)
InstructionAtPC ==
    /\ Executing =>
         \/ instruction = ByteAt(PC)
         \/ Stores(instruction) /\ WordIndex(Stored) = WordIndex(PC)
    /\ ~control.ram_not_ready => executed = instruction

Timing == Shape /\ Phases /\ Pipeline

IInv == Timing /\ FetchOnBus /\ StoreOnBus /\ WriteOnBus /\ InstructionAtPC

-----------------------------------------------------------------------------
(* The clock. *)

ReadRequest == control.delay = 2 \/ (control.inst_mem /\ ~inst_mem_r)

(* The memory interface decodes a store as the properties do. *)
LEMMA InstWrite == ram_interface!inst_write <=> Stores(instruction)
BY DEF ram_interface!inst_write, Stores, ram_interface!Opperand, Opperand,
       ram_interface!STR, STR, ram_interface!PUSH, PUSH, ram_interface!CALL, CALL,
       ram_interface!ATOM, ATOM

(* The reader and the writer at an edge. *)
LEMMA Units ==
    ASSUME Tick
    PROVE  /\ reader'.read_request_r <=> ReadRequest
           /\ reader'.new_request_r <=> ReadRequest /\ ~reader.read_request_r
           /\ reader'.read_ready = reader.new_request_r
           /\ writer'.write_ready <=> writer'.write_request_r /\ ~writer.write_request_r
           /\ writer'.write_request_r <=>
                Stores(instruction) /\ reader.read_ready /\ control.instruction_ok
           /\ inst_mem_r' = control.inst_mem
<1>1. ram_interface!Read /\ ram_interface!Write /\ inst_mem_r' = control.inst_mem
  BY DEF Tick, ram_interface!Clock
<1>2. ram_interface!read_request <=> ReadRequest
  BY DEF ram_interface!read_request, ReadRequest
<1>3. /\ reader'.read_request_r = ram_interface!read_request
      /\ reader'.new_request_r = (ram_interface!read_request /\ ~reader.read_request_r)
      /\ reader'.read_ready = reader.new_request_r
  BY <1>1, Zenon DEF ram_interface!Read
<1>4. ram_interface!write_request <=>
        Stores(instruction) /\ reader.read_ready /\ control.instruction_ok
  BY InstWrite DEF ram_interface!write_request
<1>5. /\ writer'.write_request_r = ram_interface!write_request
      /\ writer'.write_ready = (ram_interface!write_request /\ ~writer.write_request_r)
  BY <1>1, Zenon DEF ram_interface!Write
<1> QED
  BY <1>1, <1>2, <1>3, <1>4, <1>5, Zenon

(* The memory stays a function of its words. *)
LEMMA RamShape ==
    ASSUME Shape, ClockRam
    PROVE  ram' = [w \in DOMAIN ram' |-> ram'[w]] /\ DOMAIN ram' = DOMAIN ram
BY DEF Shape, ClockRam

(* The sequencer stays in its phases. *)
LEMMA TickTiming ==
    ASSUME Timing, Next, Tick
    PROVE  Shape' /\ Phases'
<1>1. ram' = [w \in DOMAIN ram' |-> ram'[w]]
  BY RamShape DEF Timing, Next
<1>2. inst_mem_r' = control.inst_mem /\ byte_mode' \in BOOLEAN /\ Shape /\ Phases
  BY Units DEF Timing, Tick, ram_interface!Clock
<1> SUFFICES ControlShape' /\ Phases'
  BY <1>1, <1>2 DEF Shape, ControlShape, Flags
<1>3. CASE ram_interface!StartAccess
  BY <1>2, <1>3 DEF Shape, ControlShape, Flags, Phases, Executing,
     ram_interface!StartAccess
<1>4. CASE ram_interface!AwaitAccess
  BY <1>2, <1>4 DEF Shape, ControlShape, Flags, Phases, Executing,
     ram_interface!AwaitAccess
<1>5. CASE ram_interface!Finish
  BY <1>2, <1>5 DEF Shape, ControlShape, Flags, Phases, Executing,
     ram_interface!Finish
<1>6. CASE ram_interface!Update
  BY <1>2, <1>6 DEF Shape, ControlShape, Flags, Phases, Executing,
     ram_interface!Update
<1>7. CASE ram_interface!StartFetch
  BY <1>2, <1>7 DEF Shape, ControlShape, Flags, Phases, Executing,
     ram_interface!StartFetch, ram_interface!Idle
<1>8. CASE ram_interface!CountDelay
  BY <1>2, <1>8 DEF Shape, ControlShape, Flags, Phases, Executing,
     ram_interface!CountDelay, ram_interface!Idle
<1>9. CASE ram_interface!AwaitFetch
  BY <1>2, <1>9 DEF Shape, ControlShape, Flags, Phases, Executing,
     ram_interface!AwaitFetch, ram_interface!Idle
<1>10. CASE ram_interface!Decode
  BY <1>2, <1>10 DEF Shape, ControlShape, Flags, Phases, Executing,
     ram_interface!Decode, ram_interface!Idle
<1> QED
  BY <1>3, <1>4, <1>5, <1>6, <1>7, <1>8, <1>9, <1>10
     DEF Tick, ram_interface!Clock, ram_interface!Sequence

(* Requests, reads and writes follow one another. *)
LEMMA TickPipeline ==
    ASSUME Timing, Tick
    PROVE  Pipeline'
<1>1. Shape /\ Phases /\ Pipeline
  BY DEF Timing
<1>2. /\ reader'.read_request_r <=> ReadRequest
      /\ reader'.new_request_r <=> ReadRequest /\ ~reader.read_request_r
      /\ reader'.read_ready = reader.new_request_r
      /\ writer'.write_ready <=> writer'.write_request_r /\ ~writer.write_request_r
      /\ writer'.write_request_r <=>
           Stores(instruction) /\ reader.read_ready /\ control.instruction_ok
      /\ inst_mem_r' = control.inst_mem
  BY Units
<1>3. CASE ram_interface!StartAccess
  BY <1>1, <1>2, <1>3 DEF Shape, ControlShape, Flags, Phases, Pipeline, Executing, Fetching,
     ReadRequest, ram_interface!StartAccess
<1>4. CASE ram_interface!AwaitAccess
  BY <1>1, <1>2, <1>4 DEF Shape, ControlShape, Flags, Phases, Pipeline, Executing, Fetching,
     ReadRequest, ram_interface!AwaitAccess, ram_interface!AccessDone
<1>5. CASE ram_interface!Finish
  BY <1>1, <1>2, <1>5 DEF Shape, ControlShape, Flags, Phases, Pipeline, Executing, Fetching,
     ReadRequest, ram_interface!Finish, ram_interface!AccessDone
<1>6. CASE ram_interface!Update
  BY <1>1, <1>2, <1>6 DEF Shape, ControlShape, Flags, Phases, Pipeline, Executing, Fetching,
     ReadRequest, ram_interface!Update
<1>7. CASE ram_interface!StartFetch
  BY <1>1, <1>2, <1>7 DEF Shape, ControlShape, Flags, Phases, Pipeline, Executing, Fetching,
     ReadRequest, ram_interface!StartFetch, ram_interface!Idle
<1>8. CASE ram_interface!CountDelay
  BY <1>1, <1>2, <1>8 DEF Shape, ControlShape, Flags, Phases, Pipeline, Executing, Fetching,
     ReadRequest, ram_interface!CountDelay, ram_interface!Idle
<1>9. CASE ram_interface!AwaitFetch
  BY <1>1, <1>2, <1>9 DEF Shape, ControlShape, Flags, Phases, Pipeline, Executing, Fetching,
     ReadRequest, ram_interface!AwaitFetch, ram_interface!Idle
<1>10. CASE ram_interface!Decode
  BY <1>1, <1>2, <1>10 DEF Shape, ControlShape, Flags, Phases, Pipeline, Executing, Fetching,
     ReadRequest, ram_interface!Decode, ram_interface!Idle
<1> QED
  BY <1>3, <1>4, <1>5, <1>6, <1>7, <1>8, <1>9, <1>10
     DEF Tick, ram_interface!Clock, ram_interface!Sequence

-----------------------------------------------------------------------------
(* The bus. *)

(* The memory interface has operators of its own for words. *)
LEMMA SameWords ==
    ASSUME NEW v, NEW s, NEW w
    PROVE  /\ ram_interface!Bits(v) = Bits(v)
           /\ ram_interface!FromBits(v) = FromBits(v)
           /\ ram_interface!ShiftRight(v, s) = ShiftRight(v, s)
           /\ ram_interface!ShiftLeft(v, s, w) = ShiftLeft(v, s, w)
           /\ ram_interface!WordBits = WordBits
<1>1. ram_interface!Bits(v) = Bits(v)
  BY DEF ram_interface!Bits, Bits, ram_interface!Bit, Bit
<1>2. ram_interface!FromBits(v) = FromBits(v)
  BY DEF ram_interface!FromBits, FromBits, ram_interface!SumFunction, SumFunction,
         ram_interface!SumFunctionOnSet, SumFunctionOnSet,
         ram_interface!FoldFunctionOnSet, FoldFunctionOnSet,
         ram_interface!MapThenFoldSet, MapThenFoldSet
<1>3. /\ ram_interface!ShiftRight(v, s) = ShiftRight(v, s)
      /\ ram_interface!ShiftLeft(v, s, w) = ShiftLeft(v, s, w)
  BY DEF ram_interface!ShiftRight, ShiftRight, ram_interface!ShiftLeft, ShiftLeft
<1>4. ram_interface!WordBits = WordBits
  BY DEF ram_interface!WordBits, WordBits
<1> QED
  BY <1>1, <1>2, <1>3, <1>4

(* The bus is given the PC, or the address of the store. *)
LEMMA BusAddress ==
    /\ ~control.instruction_ok => ram_interface!cpu_addr = PC
    /\ control.instruction_ok /\ Stores(instruction) => ram_interface!cpu_addr = Stored
<1>1. ~control.instruction_ok => ram_interface!cpu_addr = PC
  BY DEF ram_interface!cpu_addr
<1>2. ASSUME control.instruction_ok, Stores(instruction)
      PROVE  ram_interface!cpu_addr = Stored
  <2> USE DEF ram_interface!cpu_addr, Stored, AccessAddr, Opperand, ram_interface!Opperand,
              PUSH, CALL, POP, RET, ATOM, STR, LOAD, ram_interface!PUSH, ram_interface!CALL,
              ram_interface!POP, ram_interface!RET, ram_interface!ATOM, ram_interface!STR,
              ram_interface!LOAD, other_register
  <2>1. CASE instruction \in {PUSH, CALL}
    BY <1>2, <2>1
  <2>2. CASE instruction = ATOM
    BY <1>2, <2>2
  <2>3. CASE Opperand(instruction) = STR
    BY <1>2, <2>3
  <2> QED
    BY <1>2, <2>1, <2>2, <2>3 DEF Stores
<1> QED
  BY <1>1, <1>2

(* Until the CPU updates, its registers and the size of accesses stay. *)
LEMMA Unmoved ==
    ASSUME Timing, Tick, control.ram_not_ready
    PROVE  UNCHANGED <<registers, level, byte_mode>>
<1>1. UNCHANGED registers
  BY DEF Tick, UpdateRegisters
<1>2. UNCHANGED level
  BY DEF Tick, interrupt_ctrl!Clock, interrupt_ctrl!Enter, interrupt_ctrl!Return,
         interrupt_ctrl!Returning, interrupt_ctrl!Stay, interrupt_ctrl!Redirect,
         interrupt_ctrl!nestVars
<1>3. UNCHANGED byte_mode
  BY DEF Tick, ram_interface!Clock, Timing, Shape
<1> QED
  BY <1>1, <1>2, <1>3

(* The memory at an edge. *)
LEMMA Memory ==
    ASSUME Next
    PROVE  /\ ~writer.write_ready => ram' = ram
           /\ WordIndex(addr) \notin DOMAIN ram => ram' = ram
           /\ WordIndex(addr) \in DOMAIN ram /\ writer.write_ready =>
                ram' = [ram EXCEPT ![WordIndex(addr)] = writer.data_out_ram]
           /\ WordIndex(addr) \in DOMAIN ram => data_out_array' = ram[WordIndex(addr)]
BY DEF Next, ClockRam, WordIndex

(* The byte at the PC, when nothing changes it. *)
LEMMA SameByte ==
    ASSUME UNCHANGED registers,
           DOMAIN ram' = DOMAIN ram,
           WordIndex(PC) \in DOMAIN ram => ram'[WordIndex(PC)] = ram[WordIndex(PC)]
    PROVE  ByteAt(PC)' = ByteAt(PC) /\ PC' = PC
BY DEF ByteAt, WordAt, WordIndex, FirstBit, BitsOf, PC

-----------------------------------------------------------------------------
(* What is on the bus, when the processor runs. *)

(* The reader takes the byte at the address of the fetch. *)
LEMMA FetchedByte ==
    ASSUME Tick, ~control.instruction_ok, reader.new_request_r, addr = PC, WordOnBus
    PROVE  reader'.data_in_cpu % 256 = ByteAt(PC)
<1>1. ram_interface!cpu_addr = PC /\ data_in = WordAt(PC)
  BY BusAddress DEF data_in, WordAt, WordIndex, WordOnBus
<1>2. ram_interface!size_used = 0
  BY DEF ram_interface!size_used
<1>3. ram_interface!shift = FirstBit(PC) /\ ram_interface!mask = BitsOf(PC, 0)
  BY <1>1, <1>2, SameWords
     DEF ram_interface!shift, ram_interface!mask, FirstBit, BitsOf
<1>4. reader'.data_in_cpu =
        ram_interface!ShiftRight(ram_interface!FromBits(ram_interface!Bits(data_in)
                                                         \cap ram_interface!mask),
                                 ram_interface!shift)
  BY DEF Tick, ram_interface!Clock, ram_interface!Read
<1> QED
  BY <1>1, <1>3, <1>4, SameWords DEF ByteAt

LEMMA TickFetch ==
    ASSUME IInv, Next, Tick
    PROVE  FetchOnBus'
<1>1. /\ Shape /\ Phases /\ Pipeline /\ FetchOnBus /\ WriteOnBus
      /\ addr' = ram_interface!cpu_addr
  BY DEF IInv, Timing, Tick, ram_interface!Clock
<1>2. SUFFICES ASSUME Fetching'
      PROVE  /\ control'.delay # 1 => addr' = PC'
             /\ control'.delay = 3 => WordOnBus'
             /\ control'.delay = 0 => reader'.data_in_cpu % 256 = ByteAt(PC)'
  BY DEF FetchOnBus
<1>3. CASE control'.delay = 1
  BY <1>3
<1>4. CASE Fetching /\ ~control.instruction_ok /\ control'.delay # 1
  <2>1. ~writer.write_ready /\ UNCHANGED <<registers, ram>> /\ addr' = PC
    BY <1>1, <1>4, Unmoved, Memory, BusAddress DEF IInv, Timing, Phases, Pipeline, Fetching
  <2>2. PC' = PC /\ ByteAt(PC)' = ByteAt(PC)
    BY <2>1, SameByte
  <2>3. CASE ram_interface!CountDelay
    <3>1. /\ control.delay # 0 /\ control'.delay = (control.delay + 1) % 4
          /\ control.delay \in 0..3
      BY <1>1, <2>3 DEF ram_interface!CountDelay, Shape, ControlShape, Flags
    <3>2. control'.delay = 3 => WordOnBus'
      BY <1>1, <1>4, <2>1, <3>1, Memory DEF FetchOnBus, WordOnBus, WordIndex
    <3>3. control'.delay = 0 => control.delay = 3
      BY <3>1
    <3>4. control.delay = 3 => reader'.data_in_cpu % 256 = ByteAt(PC)
      BY <1>1, <1>4, FetchedByte DEF FetchOnBus, Pipeline
    <3> QED
      BY <2>1, <2>2, <3>2, <3>3, <3>4
  <2>4. CASE ram_interface!AwaitFetch
    <3>1. control.delay = 0 /\ control'.delay = 0
      BY <1>1, <2>4 DEF ram_interface!AwaitFetch, Shape, ControlShape, Flags
    <3>2. reader'.data_in_cpu = reader.data_in_cpu
      BY <1>1, <1>4, <3>1 DEF Pipeline, Tick, ram_interface!Clock, ram_interface!Read
    <3> QED
      BY <1>1, <1>4, <2>1, <2>2, <3>1, <3>2 DEF FetchOnBus
  <2> QED
    BY <1>1, <1>2, <1>4, <2>3, <2>4
       DEF Fetching, Tick, ram_interface!Clock, ram_interface!Sequence, ram_interface!Idle,
           ram_interface!StartAccess, ram_interface!AwaitAccess, ram_interface!Finish,
           ram_interface!Update, ram_interface!StartFetch, ram_interface!Decode,
           Shape, ControlShape, Flags
<1>5. ~Fetching => control'.delay = 1
  BY <1>1, <1>2
     DEF Fetching, Tick, ram_interface!Clock, ram_interface!Sequence, ram_interface!Idle,
         ram_interface!StartAccess, ram_interface!AwaitAccess, ram_interface!Finish,
         ram_interface!Update, ram_interface!StartFetch, ram_interface!CountDelay,
         ram_interface!AwaitFetch, ram_interface!Decode, Shape, ControlShape, Flags
<1> QED
  BY <1>3, <1>4, <1>5 DEF Fetching

(* The sequencer, for what follows. *)
LEMMA Sequencer ==
    ASSUME Timing, Tick
    PROVE  /\ control'.instruction_ok =>
                \/ control.instruction_ok /\ instruction' = instruction
                \/ Fetching /\ control.delay = 0 /\ instruction' = reader.data_in_cpu % 256
                   /\ ~control'.inst_mem
           /\ ~control'.instruction_ok => instruction' = instruction
           /\ control'.inst_mem => control.instruction_ok
           /\ Executing' => /\ control.ram_not_ready
                            /\ Executing \/ control'.instruction_ok
<1>1. Shape /\ Phases
  BY DEF Timing
<1> USE DEF Shape, ControlShape, Flags, Phases, Executing, Fetching
<1>2. CASE ram_interface!StartAccess
  BY <1>1, <1>2 DEF ram_interface!StartAccess, ram_interface!Idle
<1>3. CASE ram_interface!AwaitAccess
  BY <1>1, <1>3 DEF ram_interface!AwaitAccess, ram_interface!Idle
<1>4. CASE ram_interface!Finish
  BY <1>1, <1>4 DEF ram_interface!Finish, ram_interface!Idle
<1>5. CASE ram_interface!Update
  BY <1>1, <1>5 DEF ram_interface!Update, ram_interface!Idle
<1>6. CASE ram_interface!StartFetch
  BY <1>1, <1>6 DEF ram_interface!StartFetch, ram_interface!Idle
<1>7. CASE ram_interface!CountDelay
  BY <1>1, <1>7 DEF ram_interface!CountDelay, ram_interface!Idle
<1>8. CASE ram_interface!AwaitFetch
  BY <1>1, <1>8 DEF ram_interface!AwaitFetch, ram_interface!Idle
<1>9. CASE ram_interface!Decode
  BY <1>1, <1>9 DEF ram_interface!Decode, ram_interface!Idle
<1> QED
  BY <1>2, <1>3, <1>4, <1>5, <1>6, <1>7, <1>8, <1>9
     DEF Tick, ram_interface!Clock, ram_interface!Sequence

(* The address of an instruction, and the word it makes of a word. *)
LEMMA SameStore ==
    ASSUME UNCHANGED <<registers, level, byte_mode, instruction>>
    PROVE  /\ Stored' = Stored
           /\ \A word : Merged(word)' = Merged(word)
<1>1. Stored' = Stored
  BY DEF Stored, AccessAddr, SP, WR
<1>2. StoredValue' = StoredValue /\ FirstBit(Stored)' = FirstBit(Stored)
  BY <1>1 DEF StoredValue, FirstBit, PC, WR
<1>3. StoredBits' = StoredBits
  BY <1>1 DEF StoredBits, BitsOf, FirstBit, ram_interface!size_normal_access,
              ram_interface!reduced_behaviour_bits, SR
<1> QED
  BY <1>1, <1>2, <1>3 DEF Merged

LEMMA TickStore ==
    ASSUME IInv, Next, Tick
    PROVE  StoreOnBus'
<1>1. /\ Timing /\ Shape /\ Phases /\ Pipeline /\ StoreOnBus
      /\ addr' = ram_interface!cpu_addr
  BY DEF IInv, Timing, Tick, ram_interface!Clock
<1>2. SUFFICES ASSUME control'.inst_mem, Stores(instruction'), control'.instruction_ok
      PROVE  /\ addr' = Stored'
             /\ reader'.new_request_r \/ reader'.read_ready => WordOnBus'
  BY DEF StoreOnBus
<1>3. control.instruction_ok /\ control.ram_not_ready /\ instruction' = instruction
  BY <1>1, <1>2, Sequencer DEF Phases, Fetching
<1>4. addr' = Stored /\ Stored' = Stored
  BY <1>1, <1>2, <1>3, Unmoved, BusAddress, SameStore
<1>5. ASSUME reader'.new_request_r \/ reader'.read_ready
      PROVE  WordOnBus'
  <2>1. control.inst_mem /\ ~writer.write_ready
    BY <1>1, <1>3, <1>5, Units DEF Pipeline, Phases, Executing, ReadRequest
  <2>2. addr = Stored /\ ram' = ram
    BY <1>1, <1>2, <1>3, <2>1, Memory DEF StoreOnBus
  <2> QED
    BY <1>4, <2>2, Memory DEF WordOnBus, WordIndex
<1> QED
  BY <1>4, <1>5

(* What the writer takes to write. *)
LEMMA WriterMerges ==
    ASSUME IInv, Next, Tick, writer'.write_ready
    PROVE  /\ Stores(instruction) /\ addr' = Stored
           /\ UNCHANGED <<registers, level, byte_mode, instruction, ram>>
           /\ WordIndex(Stored) \in DOMAIN ram =>
                writer'.data_out_ram = Merged(ram[WordIndex(Stored)])
<1>1. /\ Timing /\ Shape /\ Phases /\ Pipeline /\ StoreOnBus
      /\ addr' = ram_interface!cpu_addr
  BY DEF IInv, Timing, Tick, ram_interface!Clock
<1>3. Stores(instruction) /\ reader.read_ready /\ control.instruction_ok /\ ~writer.write_request_r
  BY Units
<1>4. control.inst_mem /\ control.ram_not_ready /\ ~writer.write_ready
  BY <1>1, <1>3 DEF Pipeline, Phases, Executing
<1>5. UNCHANGED <<registers, level, byte_mode, instruction, ram>>
  BY <1>1, <1>3, <1>4, Unmoved, Sequencer, Memory DEF Fetching
<1>6. addr' = Stored /\ addr = Stored /\ WordOnBus
  BY <1>1, <1>3, <1>4, BusAddress DEF StoreOnBus
<1>7. ASSUME WordIndex(Stored) \in DOMAIN ram
      PROVE  writer'.data_out_ram = Merged(ram[WordIndex(Stored)])
  <2>1. data_in = ram[WordIndex(Stored)]
    BY <1>6, <1>7 DEF data_in, WordOnBus, WordIndex
  <2>2. ram_interface!cpu_addr = Stored
    BY <1>3, BusAddress
  <2>3. ram_interface!shift = FirstBit(Stored) /\ ram_interface!mask = StoredBits
    <3>1. ram_interface!size_used =
            IF level = LEVEL_NORMAL /\ byte_mode THEN 0
            ELSE IF instruction \in {PUSH, CALL} THEN ram_interface!size_used_max
            ELSE ram_interface!size_normal_access
      BY <1>1, <1>3
         DEF ram_interface!size_used, ram_interface!StackInst, Stores, Opperand,
             ram_interface!PUSH, ram_interface!POP, ram_interface!CALL, ram_interface!RET,
             PUSH, CALL, STR, ATOM
    <3> QED
      BY <2>2, <3>1, SameWords
         DEF ram_interface!shift, ram_interface!mask, StoredBits, BitsOf, FirstBit
  <2>4. ram_interface!data_out_cpu = StoredValue
    BY <1>3 DEF ram_interface!data_out_cpu, StoredValue, Stores, Opperand,
           ram_interface!Opperand, ram_interface!PUSH, ram_interface!CALL, ram_interface!STR,
           ram_interface!ATOM, PUSH, CALL, STR, ATOM
  <2>5. writer'.data_out_ram = ram_interface!data_to_write
    <3>1. ram_interface!write_request
      BY <1>3, InstWrite DEF ram_interface!write_request
    <3> QED
      BY <1>3, <3>1 DEF Tick, ram_interface!Clock, ram_interface!Write
  <2>6. /\ ram_interface!Bits(data_in) = Bits(ram[WordIndex(Stored)])
        /\ ram_interface!ShiftLeft(ram_interface!data_out_cpu, ram_interface!shift,
                                   ram_interface!WordBits)
             = ShiftLeft(StoredValue, FirstBit(Stored), WordBits)
    BY <2>1, <2>3, <2>4, SameWords
  <2>7. ram_interface!Bits(ShiftLeft(StoredValue, FirstBit(Stored), WordBits))
          = Bits(ShiftLeft(StoredValue, FirstBit(Stored), WordBits))
    BY SameWords
  <2>8. ram_interface!data_to_write
          = ram_interface!FromBits
              ((Bits(ram[WordIndex(Stored)]) \ StoredBits)
               \cup (Bits(ShiftLeft(StoredValue, FirstBit(Stored), WordBits))
                       \cap StoredBits))
    BY <2>3, <2>6, <2>7, Zenon DEF ram_interface!data_to_write
  <2> QED
    BY <2>5, <2>8, SameWords, Zenon DEF Merged
<1> QED
  BY <1>3, <1>5, <1>6, <1>7

LEMMA TickWrite ==
    ASSUME IInv, Next, Tick
    PROVE  WriteOnBus'
<1>1. SUFFICES ASSUME writer'.write_ready
      PROVE  /\ Stores(instruction') /\ addr' = Stored'
             /\ WordIndex(addr') \in DOMAIN ram' =>
                  (writer.data_out_ram = Merged(ram[WordIndex(addr)]))'
  BY DEF WriteOnBus, WordIndex
<1>2. /\ Stores(instruction) /\ addr' = Stored
      /\ UNCHANGED <<registers, level, byte_mode, instruction, ram>>
      /\ WordIndex(Stored) \in DOMAIN ram =>
           writer'.data_out_ram = Merged(ram[WordIndex(Stored)])
  BY <1>1, WriterMerges
<1>3. Stored' = Stored /\ \A word : Merged(word)' = Merged(word)
  BY <1>2, SameStore
<1>4. Merged(ram[WordIndex(addr)])' = Merged(ram[WordIndex(Stored)])
  <2>1. ram'[WordIndex(addr)'] = ram[WordIndex(Stored)]
    BY <1>2 DEF WordIndex
  <2> QED
    BY <1>3, <2>1, Zenon DEF Merged
<1> QED
  BY <1>2, <1>3, <1>4 DEF WordIndex

-----------------------------------------------------------------------------
(* The instruction and the PC. *)

(* What an instruction writes is its own word, or not that of the PC. *)
LEMMA SameInstruction ==
    ASSUME IInv, Next, Executing, UNCHANGED <<registers, level, byte_mode, instruction>>
    PROVE  \/ instruction' = ByteAt(PC)'
           \/ Stores(instruction)' /\ (WordIndex(Stored) = WordIndex(PC))'
<1>1. /\ Shape /\ WriteOnBus /\ DOMAIN ram' = DOMAIN ram
      /\ instruction = ByteAt(PC) \/ (Stores(instruction) /\ WordIndex(Stored) = WordIndex(PC))
  BY RamShape DEF IInv, Timing, InstructionAtPC, Next
<1>2. Stored' = Stored /\ PC' = PC /\ Stores(instruction)' = Stores(instruction)
  BY SameStore, Zenon DEF PC, Stores
<1>3. CASE Stores(instruction) /\ WordIndex(Stored) = WordIndex(PC)
  BY <1>2, <1>3 DEF WordIndex
<1>4. CASE /\ instruction = ByteAt(PC)
           /\ ~(Stores(instruction) /\ WordIndex(Stored) = WordIndex(PC))
  <2>1. ASSUME WordIndex(PC) \in DOMAIN ram
        PROVE  ram'[WordIndex(PC)] = ram[WordIndex(PC)]
    <3>1. CASE ~writer.write_ready \/ WordIndex(addr) \notin DOMAIN ram
      BY <3>1, Memory
    <3>2. CASE writer.write_ready /\ WordIndex(addr) \in DOMAIN ram
      <4>1. WordIndex(addr) # WordIndex(PC)
        BY <1>1, <1>4, <3>2 DEF WriteOnBus
      <4>2. ram' = [ram EXCEPT ![WordIndex(addr)] = writer.data_out_ram]
        BY <3>2, Memory
      <4> QED
        BY <2>1, <4>1, <4>2
    <3> QED
      BY <3>1, <3>2
  <2>2. ByteAt(PC)' = ByteAt(PC)
    BY <1>1, <2>1, SameByte
  <2> QED
    BY <1>4, <2>2
<1> QED
  BY <1>1, <1>3, <1>4

LEMMA TickInstruction ==
    ASSUME IInv, Next, Tick
    PROVE  InstructionAtPC'
<1>1. /\ Timing /\ Shape /\ Phases /\ Pipeline /\ FetchOnBus
      /\ executed' = instruction
  BY DEF IInv, Timing, Tick
<1>2. ASSUME ~control'.ram_not_ready
      PROVE  executed' = instruction'
  <2>1. ~control'.instruction_ok
    BY <1>1, <1>2, TickTiming DEF Phases
  <2> QED
    BY <1>1, <2>1, Sequencer
<1>3. ASSUME Executing'
      PROVE  \/ instruction' = ByteAt(PC)'
             \/ Stores(instruction)' /\ (WordIndex(Stored) = WordIndex(PC))'
  <2>1. UNCHANGED <<registers, level, byte_mode>>
    BY <1>1, <1>3, Sequencer, Unmoved
  <2>2. CASE Executing /\ instruction' = instruction
    BY <2>1, <2>2, SameInstruction
  <2>3. CASE Fetching /\ control.delay = 0 /\ instruction' = reader.data_in_cpu % 256
    <3>1. instruction' = ByteAt(PC)
      BY <1>1, <2>3 DEF FetchOnBus
    <3>2. ram' = ram
      BY <1>1, <2>3, Memory DEF Pipeline, Phases, Fetching
    <3>3. ByteAt(PC)' = ByteAt(PC)
      BY <2>1, <3>2, SameByte
    <3> QED
      BY <3>1, <3>3
  <2> QED
    BY <1>1, <1>3, <2>2, <2>3, Sequencer DEF Executing
<1> QED
  BY <1>2, <1>3 DEF InstructionAtPC, Stores, WordIndex

-----------------------------------------------------------------------------
(* While the processor is held, the memory is not. *)

LEMMA HeldStep ==
    ASSUME IInv, Next, Held
    PROVE  IInv'
<1>1. /\ UNCHANGED <<registers, executed, instruction, addr, byte_mode, control>>
      /\ UNCHANGED <<inst_mem_r, reader, writer, level>>
  BY DEF Held, cpuVars, memoryVars, interruptVars
<1>2. /\ Shape /\ Phases /\ Pipeline /\ FetchOnBus /\ StoreOnBus /\ WriteOnBus
      /\ InstructionAtPC
  BY DEF IInv, Timing
<1>3. Timing'
  <2>1. ram' = [w \in DOMAIN ram' |-> ram'[w]]
    BY <1>2, RamShape DEF Next
  <2>2. Shape'
    BY <1>1, <1>2, <2>1 DEF Shape, ControlShape, Flags
  <2>3. Phases' /\ Pipeline'
    BY <1>1, <1>2 DEF Phases, Pipeline, Fetching, Executing
  <2> QED
    BY <2>2, <2>3 DEF Timing
<1>4. Stored' = Stored /\ PC' = PC
  BY <1>1, SameStore, Zenon DEF PC
<1>5. ~writer.write_ready => ram' = ram /\ WordOnBus'
  BY <1>1, Memory DEF WordOnBus, WordIndex
<1>6. FetchOnBus'
  <2>1. Fetching => ~writer.write_ready
    BY <1>2 DEF Fetching, Pipeline, Phases
  <2>2. ram' = ram => ByteAt(PC)' = ByteAt(PC)
    BY <1>1, SameByte
  <2> QED
    BY <1>1, <1>2, <1>4, <1>5, <2>1, <2>2 DEF FetchOnBus, Fetching
<1>7. StoreOnBus'
  BY <1>1, <1>2, <1>4, <1>5 DEF StoreOnBus, Pipeline, Stores
<1>8. WriteOnBus'
  <2>1. SUFFICES ASSUME writer.write_ready
        PROVE  /\ Stores(instruction) /\ addr = Stored
               /\ WordIndex(addr) \in DOMAIN ram' =>
                    writer.data_out_ram = ram'[WordIndex(addr)]
    BY <1>1, <1>4 DEF WriteOnBus, WordIndex, Stores
  <2>2. DOMAIN ram' = DOMAIN ram
    BY <1>2, RamShape DEF Next
  <2> QED
    BY <1>2, <2>1, <2>2, Memory DEF WriteOnBus
<1>9. InstructionAtPC'
  <2>1. Executing => \/ instruction' = ByteAt(PC)'
                     \/ Stores(instruction)' /\ (WordIndex(Stored) = WordIndex(PC))'
    BY <1>1, SameInstruction
  <2> QED
    BY <1>1, <1>2, <2>1 DEF InstructionAtPC, Executing, Stores, WordIndex
<1> QED
  BY <1>3, <1>6, <1>7, <1>8, <1>9 DEF IInv

-----------------------------------------------------------------------------
(* The invariant. *)

LEMMA InitIInv ==
    ASSUME Init
    PROVE  IInv
<1>1. /\ control = [instruction_ok |-> FALSE, inst_mem |-> FALSE, readying_ram |-> FALSE,
                    ram_not_ready |-> TRUE, read_ready_reset |-> FALSE, delay |-> 1]
      /\ inst_mem_r = FALSE /\ byte_mode = FALSE
      /\ ~reader.read_request_r /\ ~reader.new_request_r /\ ~reader.read_ready
      /\ ~writer.write_ready
  BY DEF Init, ram_interface!Reset
<1>2. PICK image \in Images : ram = [w \in 0..(RamWords - 1) |-> WordOf(image, w)]
  BY DEF Init
<1>3. Shape /\ Phases /\ Pipeline
  <2>1. ram = [w \in DOMAIN ram |-> ram[w]]
    BY <1>2
  <2>2. ControlShape
    BY <1>1 DEF ControlShape, Flags
  <2>3. Phases /\ Pipeline
    BY <1>1 DEF Phases, Pipeline, Fetching, Executing
  <2> QED
    BY <1>1, <2>1, <2>2, <2>3 DEF Shape
<1>4. FetchOnBus /\ StoreOnBus /\ WriteOnBus /\ InstructionAtPC
  BY <1>1 DEF FetchOnBus, StoreOnBus, WriteOnBus, InstructionAtPC, Fetching, Executing
<1> QED
  BY <1>3, <1>4 DEF IInv, Timing

LEMMA StepIInv ==
    ASSUME IInv, [Next]_vars
    PROVE  IInv'
<1>1. CASE Next /\ Tick
  <2>1. Timing'
    BY <1>1, TickTiming, TickPipeline DEF IInv, Timing
  <2> QED
    BY <1>1, <2>1, TickFetch, TickStore, TickWrite, TickInstruction DEF IInv
<1>2. CASE Next /\ Held
  BY <1>2, HeldStep
<1>3. CASE UNCHANGED vars
  <2>1. /\ UNCHANGED <<registers, executed, instruction, addr, byte_mode, control>>
        /\ UNCHANGED <<inst_mem_r, reader, writer, level, ram, data_out_array>>
    BY <1>3 DEF vars, cpuVars, memoryVars, interruptVars
  <2>2. /\ Stored' = Stored /\ PC' = PC /\ ByteAt(PC)' = ByteAt(PC)
        /\ Merged(ram[WordIndex(addr)])' = Merged(ram[WordIndex(addr)])
    <3>1. Stored' = Stored /\ \A word : Merged(word)' = Merged(word)
      BY <2>1, SameStore
    <3>2. PC' = PC /\ ByteAt(PC)' = ByteAt(PC)
      BY <2>1, SameByte
    <3>3. Merged(ram[WordIndex(addr)])' = Merged(ram[WordIndex(addr)])
      BY <2>1, <3>1, Zenon DEF Merged, WordIndex
    <3> QED
      BY <3>1, <3>2, <3>3
  <2>3. Timing'
    BY <2>1 DEF IInv, Timing, Shape, ControlShape, Flags, Phases, Pipeline, Fetching, Executing
  <2>4. FetchOnBus' /\ StoreOnBus' /\ WriteOnBus' /\ InstructionAtPC'
    BY <2>1, <2>2 DEF IInv, FetchOnBus, StoreOnBus, WriteOnBus, InstructionAtPC, WordOnBus,
       WordIndex, Fetching, Executing, Stores
  <2> QED
    BY <2>3, <2>4 DEF IInv
<1> QED
  BY <1>1, <1>2, <1>3 DEF Next

LEMMA Invariance == Spec => []IInv
<1>1. Init => IInv
  BY InitIInv
<1>2. IInv /\ [Next]_vars => IInv'
  BY StepIInv
<1> QED
  BY <1>1, <1>2, PTL DEF Spec

(* Whatever the program, the memory, enable and the interrupt lines do,    *)
(* what the CPU executes is the byte that is at the PC.                    *)
THEOREM InstructionsAreAtPC == Spec => []ExecutesAtPC
<1>1. IInv => ExecutesAtPC
  <2>1. SUFFICES ASSUME IInv, ~control.ram_not_ready
        PROVE  \/ executed = ByteAt(PC)
               \/ Stores(executed) /\ WordIndex(AccessAddr(executed)) = WordIndex(PC)
    BY DEF ExecutesAtPC
  <2> QED
    BY <2>1, Zenon DEF IInv, InstructionAtPC, Executing, Stored
<1> QED
  BY <1>1, Invariance, PTL

(* The memory changes at the address of a store, in its bytes only.        *)
THEOREM StoresKeepTheRest == Spec => StoresItsBytes
<1>1. ASSUME IInv, [Next]_vars, ram' # ram
      PROVE  /\ Stores(instruction)
             /\ ram' = [ram EXCEPT ![WordIndex(Stored)] = Merged(@)]
  <2>1. Next
    BY <1>1 DEF vars
  <2>2. /\ writer.write_ready /\ WordIndex(addr) \in DOMAIN ram
        /\ ram' = [ram EXCEPT ![WordIndex(addr)] = writer.data_out_ram]
    BY <1>1, <2>1, Memory
  <2>3. /\ Stores(instruction) /\ addr = Stored
        /\ writer.data_out_ram \in {Merged(ram[WordIndex(addr)]), ram[WordIndex(addr)]}
        /\ ram = [w \in DOMAIN ram |-> ram[w]]
    BY <1>1, <2>2 DEF IInv, Timing, Shape, WriteOnBus
  <2>4. writer.data_out_ram # ram[WordIndex(addr)]
    BY <1>1, <2>2, <2>3
  <2> QED
    BY <2>2, <2>3, <2>4
<1>2. IInv /\ [Next]_vars =>
        [ram' # ram => /\ Stores(instruction)
                       /\ ram' = [ram EXCEPT ![WordIndex(Stored)] = Merged(@)]]_vars
  BY <1>1
<1> QED
  BY <1>2, Invariance, PTL DEF Spec, StoresItsBytes
=============================================================================
