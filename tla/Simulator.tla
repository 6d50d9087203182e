----------------------------- MODULE Simulator -----------------------------
(***************************************************************************)
(* The Reflet simulator (simulator/reflet.c).                              *)
(*                                                                         *)
(* reflet_run repeats check_int, run_inst and io until the program quits   *)
(* or leaves the memory.  Each of the three is a step here; run_inst is an *)
(* action per instruction, and fetches and decodes the byte at PC in the   *)
(* RAM that the program itself can write.                                  *)
(***************************************************************************)
EXTENDS Words, Opcodes, Contexts, Sequences

CONSTANTS
    WordBytes,   \* bytes in a word of the machine (config word_size_byte)
    RamSize,     \* bytes of RAM (config ram_size)
    Images,      \* the contents the loader may leave in RAM
    Timers,      \* the timer configurations: enabled timers -> int_N_freq
    Garbage,     \* what malloc may leave in an interrupt stack
    ExtendedIo,  \* config extended_io
    TxCmd, TxData, RxCmd, RxData,   \* the addresses of the basic I/O
    Stdin        \* what getchar may return

VARIABLES
    reg,         \* vm->reg
    ram,         \* vm->ram
    byte_mode,   \* vm->byte_mode
    active,      \* vm->active
    routine,     \* vm->ints[i]->routine
    count_up,    \* vm->ints[i]->count_up, of the enabled timers
    int_level,   \* vm->int_level
    freq,        \* config ints[i]->freq, of the enabled timers
    phase,       \* where reflet_run is, or how the process ended
    out          \* what the last step wrote to stdout

vars == <<reg, ram, byte_mode, active, routine, count_up, int_level, freq,
          phase, out>>

START_CHAR == 4
EOF == -1

Addresses == 0..(RamSize - 1)
Byte == 0..255
WordBits == 8 * WordBytes
WordMod == 2^WordBits
Host == 0..(HostMod - 1)

(* The cells and the commands of the extended I/O. *)
IO_COUT == 0
IO_CIN == 1
IO_CMD == 2
IO_STATUS == 3
IO_NOP == 0
IO_WRITE == 1
IO_READ == 2

ASSUME SimulatorAssumption ==
    /\ WordBytes \in {1, 2, 4, 8} /\ WordBits <= HostBits
    /\ RamSize \in Nat \ {0} /\ RamSize <= HostMod
    /\ Images \subseteq [Addresses -> Byte]
    /\ \A t \in Timers : DOMAIN t \subseteq Ints /\ \A i \in DOMAIN t : t[i] \in Int
    /\ Garbage \subseteq Host
    /\ ExtendedIo \in BOOLEAN /\ (ExtendedIo => RamSize > IO_STATUS)
    /\ {TxCmd, TxData, RxCmd, RxData} \subseteq Addresses
    /\ Stdin \subseteq Byte \cup {EOF}

(* What is written to stdout: a character by io, the line of DEBUG, and    *)
(* the line about a misaligned access.                                     *)
Character(b) == <<"char", b>>
Debugged(pc, wr) == <<"debug", pc, wr>>
Misaligned(pc, addr, n) == <<"misaligned", (pc - 1) % HostMod, n % 256, addr>>

Message ==
    ({"char"} \X Byte) \cup ({"debug"} \X Host \X Host)
        \cup ({"misaligned"} \X Host \X Byte \X Host)

WR == reg[WR_REG]
SR == reg[SR_REG]
PC == reg[PC_REG]
SP == reg[SP_REG]

-----------------------------------------------------------------------------
(* The reset: reflet_init, loadFile into the RAM, prepare_extended_io.     *)

prepare_extended_io(image) ==
    IF ExtendedIo THEN [image EXCEPT ![IO_CMD] = IO_NOP] ELSE image

Init ==
    /\ reg = [r \in 0..15 |-> IF r = PC_REG THEN START_CHAR ELSE 0]
    /\ \E image \in Images : ram = prepare_extended_io(image)
    /\ byte_mode = FALSE
    /\ active = TRUE
    /\ routine = [i \in Ints |-> 0]
    /\ freq \in Timers
    /\ count_up = [i \in DOMAIN freq |-> 0]
    /\ int_level \in [level : {LEVEL_NORMAL},
                      level_stack : [Ints -> Garbage],
                      routine_stack : [Ints -> Garbage]]
    /\ phase = "check_int"
    /\ out = <<>>

-----------------------------------------------------------------------------
(* Interrupts. *)

enabled_int(i) == Bit(SR, i + 1)

SR_TRAP == 5

(* new_int: what the interrupt state becomes when i opens a context that   *)
(* will close to address pc.                                               *)
new_int(i, pc) ==
    [level |-> i,
     level_stack |-> [int_level.level_stack EXCEPT ![i] = int_level.level],
     routine_stack |-> [int_level.routine_stack EXCEPT ![i] = pc]]

(* Mutant: an interrupt interrupts itself. *)
AcceptedSame(i) == i <= int_level.level /\ enabled_int(i)

(* The test of triger_int: a higher priority, and enabled. *)
Accepted(i) == i < int_level.level /\ enabled_int(i)

(* Mutant: the period is one instruction short. *)
ExpiredEarly == {i \in DOMAIN freq : count_up[i] + 2 >= freq[i]}

Expired == {i \in DOMAIN freq : count_up[i] + 1 >= freq[i]}

(* The loop of check_int calls triger_int on the expired timers from 0 up: *)
(* the first that is accepted raises the level above all that follow, and  *)
(* every expired counter restarts, accepted or not.                        *)
FirstAccepted(i) ==
    /\ i \in Expired /\ Accepted(i)
    /\ \A j \in Expired : Accepted(j) => i <= j

(* Mutant: an expired timer goes on counting. *)
RestartNone == count_up' = [i \in DOMAIN freq |-> count_up[i] + 1]

RestartTimers ==
    count_up' = [i \in DOMAIN freq |-> IF i \in Expired THEN 0 ELSE count_up[i] + 1]

CheckInt ==
    /\ phase = "check_int"
    /\ RestartTimers
    /\ \/ /\ \A i \in Expired : ~Accepted(i)
          /\ UNCHANGED <<reg, int_level>>
       \/ \E i \in Ints :
            /\ FirstAccepted(i)
            /\ int_level' = new_int(i, PC)
            /\ reg' = [reg EXCEPT ![PC_REG] = routine[i]]
    /\ phase' = "run_inst"
    /\ out' = <<>>
    /\ UNCHANGED <<ram, byte_mode, active, routine, freq>>

-----------------------------------------------------------------------------
(* Accesses to the RAM. *)

(* The sizes an access may have: one, but for the shifts of 1 by 31 or more *)
(* that C leaves undefined.                                                *)
byteExchanged(stack_b) ==
    LET reduced == SR \div 2^8
    IN  IF stack_b THEN {WordBytes}
        ELSE IF byte_mode /\ int_level.level = LEVEL_NORMAL THEN {1}
        ELSE IF reduced = 0 THEN {WordBytes}
        ELSE IF reduced < 32 THEN {2^(reduced - 1)}
        ELSE {2^k : k \in 0..30}

(* addr + byte_exchanged is a word_t, and wraps; the size itself does not.  *)
AccessValid(addr, n) == n < HostMod /\ (addr + n) % HostMod <= RamSize

(* check_alignement_ok keeps the size in a uint8_t. *)
AlignmentOk(addr, n) ==
    IF n % 256 = 0 THEN addr = 0 ELSE addr % (n % 256) = 0

(* Mutant: the trap opens the context of 0 inside of itself. *)
TrapAgain(addr, n) ==
    /\ ~AlignmentOk(addr, n)
    /\ enabled_int(0) /\ Bit(SR, SR_TRAP)

Trap(addr, n) ==
    /\ ~AlignmentOk(addr, n)
    /\ enabled_int(0) /\ Bit(SR, SR_TRAP)
    /\ int_level.level # 0

(* What an access leaves of the interrupt state: a trap decrements the PC   *)
(* before the context of 0 is opened.                                      *)
LevelAfter(addr, n) ==
    IF Trap(addr, n) THEN new_int(0, (PC - 1) % HostMod) ELSE int_level

(* Mutant: the PC is not decremented for the increment of run_inst. *)
PCInRoutine(addr, n) == IF Trap(addr, n) THEN routine[0] ELSE PC

(* The PC while the access is made: triger_int has put the routine there,  *)
(* and the PC is decremented a second time, for the PC++ that follows.     *)
PCInAccess(addr, n) == IF Trap(addr, n) THEN (routine[0] - 1) % HostMod ELSE PC

NextPC == (PC + 1) % HostMod

(* The PC++ at the end of run_inst, after an access. *)
PCAfter(addr, n) == (PCInAccess(addr, n) + 1) % HostMod

(* A misaligned access that is not trapped is made, and reported. *)
Reported(addr, n) ==
    IF AlignmentOk(addr, n) \/ Trap(addr, n) THEN <<>> ELSE <<Misaligned(PC, addr, n)>>

(* ATOM makes its access twice: the second is not trapped if the first is. *)
ReportedByAtom(addr, n) ==
    IF AlignmentOk(addr, n) THEN <<>>
    ELSE Reported(addr, n) \o <<Misaligned(PCInAccess(addr, n), addr, n)>>

(* Little endian; a word_t has no room for the bytes beyond HostBits.  An  *)
(* access that passed the check by wrapping reads outside of the RAM.      *)
loadWordRAM(addr, n) ==
    IF addr + n > RamSize THEN Host
    ELSE {SumFunction([k \in {k \in 0..(n - 1) : 8 * k < HostBits} |->
                         ram[addr + k] * 2^(8 * k)]) % HostMod}

(* The place of a byte of the RAM in an access. *)
Offset(a, addr) == (a - addr) % HostMod

(* Mutant: the bytes of a word in the other order. *)
putRAMWordBigEndian(addr, n, content) ==
    {[a \in Addresses |->
        IF Offset(a, addr) < n
        THEN ShiftRight(content, 8 * (n - 1 - Offset(a, addr))) % 256
        ELSE ram[a]]}

(* The code asks for the size again once the access may have been trapped. *)
(* It is the same, for the byte mode that a trap suspends has accesses of  *)
(* one byte, which are never misaligned: SizeIsKept of Simulator_proofs.   *)
(* A store of more than the 8 bytes of a word_t shifts by 64 or more, which *)
(* C leaves undefined: x86 starts again at the first byte, others give 0.  *)
putRAMWord(addr, n, content) ==
    {[a \in Addresses |->
        IF Offset(a, addr) < n
        THEN ShiftRight(content, 8 * (Offset(a, addr) % period)) % 256
        ELSE ram[a]] : period \in IF n > 8 THEN {8, n} ELSE {n}}

(* check_access_valid ends the process with RET_MEMORY. *)
ExitMemory ==
    /\ phase' = "RET_MEMORY"
    /\ out' = <<>>
    /\ UNCHANGED <<reg, ram, int_level>>

-----------------------------------------------------------------------------
(* Instructions that change registers only.  i is the byte fetched; Done   *)
(* is the PC++ at the end of run_inst.                                     *)

Done(registers) ==
    reg' = [registers EXCEPT ![PC_REG] = (registers[PC_REG] + 1) % HostMod]

SetWR(value) == Done([reg EXCEPT ![WR_REG] = value])

(* The registers with the comparison bit of SR set to whether b. *)
WithComp(registers, b) ==
    [registers EXCEPT ![SR_REG] = (@ - (@ % 2)) + (IF b THEN 1 ELSE 0)]

Set(i) == Opperand(i) = SET /\ SetWR(RegOf(i))

Read(i) == Opperand(i) = READ /\ SetWR(reg[RegOf(i)])

Cpy(i) ==
    /\ Opperand(i) = CPY
    /\ LET copied == [reg EXCEPT ![RegOf(i)] = WR]
       IN  IF RegOf(i) = PC_REG THEN reg' = copied ELSE Done(copied)

(* A shift of a word_t by 64 or more is undefined: x86 takes the amount    *)
(* modulo 64, others give 0.                                               *)
ShiftAmounts(n) == IF n < 64 THEN {n} ELSE {n % 64, 64}

Alu(i) ==
    LET r == reg[RegOf(i)]
    IN  \/ Opperand(i) = ADD /\ SetWR((WR + r) % WordMod)
        \/ Opperand(i) = AND /\ SetWR(BitAnd(WR, r))
        \/ Opperand(i) = OR  /\ SetWR(BitOr(WR, r))
        \/ Opperand(i) = XOR /\ SetWR(BitXor(WR, r))
        \/ Opperand(i) = NOT /\ SetWR(WordMod - 1 - (r % WordMod))
        \/ Opperand(i) = LSL /\ \E s \in ShiftAmounts(r) : SetWR(ShiftLeft(WR, s, WordBits))
        \/ Opperand(i) = LSR /\ \E s \in ShiftAmounts(r) : SetWR(ShiftRight(WR, s))
        \/ i = CC2 /\ SetWR((WordMod - (WR % WordMod)) % WordMod)

Compare(i) ==
    \/ Opperand(i) = EQ  /\ Done(WithComp(reg, WR = reg[RegOf(i)]))
    \/ Opperand(i) = LES /\ Done(WithComp(reg, WR < reg[RegOf(i)]))
    \/ i = CMPNOT /\ Done(WithComp(reg, ~Bit(SR, 0)))

Jif(i) ==
    /\ i = JIF
    /\ IF Bit(SR, 0) THEN reg' = [reg EXCEPT ![PC_REG] = WR] ELSE Done(reg)

Debug(i) == i = DEBUG /\ Done(reg)

GetInt(i, n) == i = GETINT + n /\ SetWR(routine[n])

GetIntStack(i, n) == i = GETINTSTACK + n /\ SetWR(int_level.routine_stack[n])

RegisterInst(i) ==
    /\ \/ Set(i) \/ Read(i) \/ Cpy(i) \/ Alu(i) \/ Compare(i) \/ Jif(i)
       \/ Debug(i) \/ \E n \in Ints : GetInt(i, n) \/ GetIntStack(i, n)
    /\ out' = IF i = DEBUG THEN <<Debugged(PC, WR)>> ELSE <<>>
    /\ phase' = "io"
    /\ UNCHANGED <<ram, byte_mode, active, routine, int_level>>

-----------------------------------------------------------------------------
(* Instructions that access the RAM.  Each first checks the address, then  *)
(* its alignment, which may open the context of interrupt 0; it is carried *)
(* out to its end all the same.                                            *)

Str(i) ==
    /\ Opperand(i) = STR
    /\ LET addr == reg[RegOf(i)]
       IN  \E n \in byteExchanged(FALSE) :
             \/ ~AccessValid(addr, n) /\ ExitMemory
             \/ /\ AccessValid(addr, n)
                /\ ram' \in putRAMWord(addr, n, WR)
                /\ int_level' = LevelAfter(addr, n)
                /\ out' = Reported(addr, n)
                /\ reg' = [reg EXCEPT ![PC_REG] = PCAfter(addr, n)]
                /\ phase' = "io"

Load(i) ==
    /\ Opperand(i) = LOAD
    /\ LET addr == reg[RegOf(i)]
       IN  \E n \in byteExchanged(FALSE) :
             \/ ~AccessValid(addr, n) /\ ExitMemory
             \/ /\ AccessValid(addr, n)
                /\ \E value \in loadWordRAM(addr, n) :
                     reg' = [reg EXCEPT ![WR_REG] = value,
                                        ![PC_REG] = PCAfter(addr, n)]
                /\ int_level' = LevelAfter(addr, n)
                /\ out' = Reported(addr, n)
                /\ phase' = "io"
                /\ UNCHANGED ram

(* Mutant: ATOM tests and does not set. *)
AtomTest(i) ==
    /\ i = ATOM
    /\ \E n \in byteExchanged(FALSE) :
         \/ ~AccessValid(WR, n) /\ ExitMemory
         \/ /\ AccessValid(WR, n)
            /\ UNCHANGED ram
            /\ int_level' = LevelAfter(WR, n)
            /\ out' = ReportedByAtom(WR, n)
            /\ \E value \in loadWordRAM(WR, n) :
                 reg' = [WithComp(reg, value = 0) EXCEPT ![PC_REG] = PCAfter(WR, n)]
            /\ phase' = "io"

(* Mutant: ATOM reads after it has written. *)
AtomSwapped(i) ==
    /\ i = ATOM
    /\ \E n \in byteExchanged(FALSE) :
         \/ ~AccessValid(WR, n) /\ ExitMemory
         \/ /\ AccessValid(WR, n)
            /\ ram' \in putRAMWord(WR, n, 1)
            /\ int_level' = LevelAfter(WR, n)
            /\ out' = ReportedByAtom(WR, n)
            /\ reg' = [WithComp(reg, FALSE) EXCEPT ![PC_REG] = PCAfter(WR, n)]
            /\ phase' = "io"

(* The test and set: both accesses are made in the one instruction. *)
Atom(i) ==
    /\ i = ATOM
    /\ \E n \in byteExchanged(FALSE) :
         \/ ~AccessValid(WR, n) /\ ExitMemory
         \/ /\ AccessValid(WR, n)
            /\ ram' \in putRAMWord(WR, n, 1)
            /\ int_level' = LevelAfter(WR, n)
            /\ out' = ReportedByAtom(WR, n)
            /\ \E value \in loadWordRAM(WR, n) :
                 reg' = [WithComp(reg, value = 0) EXCEPT ![PC_REG] = PCAfter(WR, n)]
            /\ phase' = "io"

(* Mutant: the stack moves by a byte. *)
AboveByte(sp) == (sp + 1) % WordMod

Above(sp) == (sp + WordBytes) % WordMod
Below(sp) == (sp - WordBytes) % WordMod

Push(i) ==
    /\ i = PUSH
    /\ \/ ~AccessValid(SP, WordBytes) /\ ExitMemory
       \/ /\ AccessValid(SP, WordBytes)
          /\ ram' \in putRAMWord(SP, WordBytes, WR)
          /\ int_level' = LevelAfter(SP, WordBytes)
          /\ out' = Reported(SP, WordBytes)
          /\ reg' = [reg EXCEPT ![SP_REG] = Above(SP),
                                ![PC_REG] = PCAfter(SP, WordBytes)]
          /\ phase' = "io"

Pop(i) ==
    /\ i = POP
    /\ LET sp == Below(SP)
       IN  \/ ~AccessValid(sp, WordBytes) /\ ExitMemory
           \/ /\ AccessValid(sp, WordBytes)
              /\ \E value \in loadWordRAM(sp, WordBytes) :
                   reg' = [reg EXCEPT ![SP_REG] = sp,
                                      ![WR_REG] = value,
                                      ![PC_REG] = PCAfter(sp, WordBytes)]
              /\ int_level' = LevelAfter(sp, WordBytes)
              /\ out' = Reported(sp, WordBytes)
              /\ phase' = "io"
              /\ UNCHANGED ram

(* CALL and RET set the PC themselves, over the routine of a trap. *)
Call(i) ==
    /\ i = CALL
    /\ \/ ~AccessValid(SP, WordBytes) /\ ExitMemory
       \/ /\ AccessValid(SP, WordBytes)
          /\ ram' \in putRAMWord(SP, WordBytes, NextPC)
          /\ int_level' = LevelAfter(SP, WordBytes)
          /\ out' = Reported(SP, WordBytes)
          /\ reg' = [reg EXCEPT ![SP_REG] = Above(SP), ![PC_REG] = WR]
          /\ phase' = "io"

Ret(i) ==
    /\ i = RET
    /\ LET sp == Below(SP)
       IN  \/ ~AccessValid(sp, WordBytes) /\ ExitMemory
           \/ /\ AccessValid(sp, WordBytes)
              /\ \E value \in loadWordRAM(sp, WordBytes) :
                   reg' = [reg EXCEPT ![SP_REG] = sp, ![PC_REG] = value]
              /\ int_level' = LevelAfter(sp, WordBytes)
              /\ out' = Reported(sp, WordBytes)
              /\ phase' = "io"
              /\ UNCHANGED ram

MemoryInst(i) ==
    /\ \/ Str(i) \/ Load(i) \/ Atom(i) \/ Push(i) \/ Pop(i) \/ Call(i) \/ Ret(i)
    /\ UNCHANGED <<byte_mode, active, routine>>

-----------------------------------------------------------------------------
(* Instructions that change the mode of the machine or the interrupts.     *)

Quit(i) ==
    /\ i = QUIT
    /\ active' = FALSE
    /\ Done(reg)
    /\ UNCHANGED <<byte_mode, routine, int_level>>

Tbm(i) ==
    /\ i = TBM
    /\ byte_mode' = ~byte_mode
    /\ Done(reg)
    /\ UNCHANGED <<active, routine, int_level>>

SetInt(i, n) ==
    /\ i = SETINT + n
    /\ routine' = [routine EXCEPT ![n] = WR]
    /\ Done(reg)
    /\ UNCHANGED <<active, byte_mode, int_level>>

SetIntStack(i, n) ==
    /\ i = SETINTSTACK + n
    /\ int_level' = [int_level EXCEPT !.routine_stack[n] = WR]
    /\ Done(reg)
    /\ UNCHANGED <<active, byte_mode, routine>>

(* A software interrupt that is refused is an instruction without effect. *)
SoftInt(i, n) ==
    /\ i = SOFTINT + n
    /\ IF Accepted(n)
       THEN /\ int_level' = new_int(n, NextPC)
            /\ reg' = [reg EXCEPT ![PC_REG] = routine[n]]
       ELSE Done(reg) /\ UNCHANGED int_level
    /\ UNCHANGED <<active, byte_mode, routine>>

(* Mutant: RETINT leaves every context at once. *)
RetIntToNormal(i) ==
    /\ i = RETINT
    /\ IF int_level.level # LEVEL_NORMAL
       THEN /\ reg' = [reg EXCEPT ![PC_REG] = int_level.routine_stack[int_level.level]]
            /\ int_level' = [int_level EXCEPT !.level = LEVEL_NORMAL]
       ELSE UNCHANGED <<reg, int_level>>
    /\ UNCHANGED <<active, byte_mode, routine>>

(* Outside of an interrupt RETINT does not even move the PC. *)
RetInt(i) ==
    /\ i = RETINT
    /\ IF int_level.level # LEVEL_NORMAL
       THEN /\ reg' = [reg EXCEPT ![PC_REG] = int_level.routine_stack[int_level.level]]
            /\ int_level' = [int_level EXCEPT !.level = int_level.level_stack[int_level.level]]
       ELSE UNCHANGED <<reg, int_level>>
    /\ UNCHANGED <<active, byte_mode, routine>>

ModeInst(i) ==
    /\ \/ Quit(i) \/ Tbm(i) \/ RetInt(i)
       \/ \E n \in Ints : SetInt(i, n) \/ SetIntStack(i, n) \/ SoftInt(i, n)
    /\ out' = <<>>
    /\ phase' = "io"
    /\ UNCHANGED ram

(* Only a routine outside of the RAM takes the PC there without a check:   *)
(* the byte read is then whatever the memory of the process holds.         *)
Fetched == IF PC \in Addresses THEN {ram[PC]} ELSE Byte

RunInst ==
    /\ phase = "run_inst"
    /\ \E i \in Fetched : RegisterInst(i) \/ MemoryInst(i) \/ ModeInst(i)
    /\ UNCHANGED <<count_up, freq>>

-----------------------------------------------------------------------------
(* Input and output, then the end of the turn of reflet_run. *)

Printed(command, cell) == out' = IF command THEN <<Character(ram[cell])>> ELSE <<>>

(* Mutant: a command is not acknowledged. *)
basic_io_silent ==
    /\ Printed(ram[TxCmd] = 0, TxData)
    /\ UNCHANGED ram

basic_io ==
    LET sent == IF ram[TxCmd] = 0 THEN [ram EXCEPT ![TxCmd] = 65] ELSE ram
    IN  /\ Printed(ram[TxCmd] = 0, TxData)
        /\ \/ sent[RxCmd] # 0 /\ ram' = sent
           \/ /\ sent[RxCmd] = 0
              /\ \E ch \in Stdin :
                   ram' = [sent EXCEPT ![RxData] = ch % 256,
                                       ![RxCmd] = IF ch = EOF THEN 2 ELSE 1]

extended_io ==
    /\ Printed(ram[IO_CMD] = IO_WRITE, IO_COUT)
    /\ \/ ram[IO_CMD] # IO_READ /\ ram' = [ram EXCEPT ![IO_CMD] = IO_NOP]
       \/ /\ ram[IO_CMD] = IO_READ
          /\ \E ch \in Stdin :
               ram' = [ram EXCEPT ![IO_CIN] = ch % 256,
                                  ![IO_STATUS] = IF ch = EOF THEN 1 ELSE 0,
                                  ![IO_CMD] = IO_NOP]

(* Mutant: the PC is not checked. *)
IoUnchecked ==
    /\ phase = "io"
    /\ IF ExtendedIo THEN extended_io ELSE basic_io
    /\ phase' = IF active THEN "check_int" ELSE "returned"
    /\ UNCHANGED <<reg, byte_mode, active, routine, count_up, int_level, freq>>

Io ==
    /\ phase = "io"
    /\ IF ExtendedIo THEN extended_io ELSE basic_io
    /\ phase' = IF PC >= RamSize THEN "RET_MEMORY"
                ELSE IF active THEN "check_int" ELSE "returned"
    /\ UNCHANGED <<reg, byte_mode, active, routine, count_up, int_level, freq>>

-----------------------------------------------------------------------------
(* The process: reflet_run is the only thread, so a step that can be taken *)
(* is taken.  Ended is the process that has exited.                        *)

Ended == phase \in {"RET_MEMORY", "returned"} /\ UNCHANGED vars

Next == CheckInt \/ RunInst \/ Io \/ Ended

Spec == Init /\ [][Next]_vars

FairSpec == Spec /\ WF_vars(Next)
=============================================================================
