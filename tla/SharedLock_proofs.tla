-------------------------- MODULE SharedLock_proofs --------------------------
(***************************************************************************)
(* The lock that a program and an interrupt routine share, whatever the    *)
(* timers, the characters read and the word of the host: they are never    *)
(* both inside, and what is printed is what was read.                      *)
(***************************************************************************)
EXTENDS SharedLock, Simulator_proofs

-----------------------------------------------------------------------------
(* The machine: words are bytes, and no access is misaligned.              *)

LEMMA Machine ==
    /\ WordBytes = 1 /\ WordBits = 8 /\ WordMod = 256 /\ RamSize = 96
    /\ Addresses = 0..95 /\ ExtendedIo
    /\ HostMod \in Nat /\ HostMod >= 256
<1>1. WordBytes = 1 /\ RamSize = 96 /\ ExtendedIo
  BY LockMachine DEF LockRamSize
<1>2. WordBits = 8 /\ Addresses = 0..95
  BY <1>1 DEF WordBits, Addresses
<1>3. 2^8 = 256
  OBVIOUS
<1> QED
  BY <1>1, <1>2, <1>3, Sizes DEF WordMod

(* What the status register enables. *)
LEMMA Enabled ==
    ASSUME SR \in {0, 4, 5}, NEW i \in Ints
    PROVE  /\ enabled_int(i) <=> (i = 1 /\ SR # 0)
           /\ SR \div 2^8 = 0
           /\ Bit(SR, 0) <=> SR = 5
<1>1. 2^0 = 1 /\ 2^1 = 2 /\ 2^2 = 4 /\ 2^3 = 8 /\ 2^4 = 16 /\ 2^8 = 256
  OBVIOUS
<1>2. i \in {0, 1, 2, 3}
  BY DEF Ints
<1>3. enabled_int(i) <=> (i = 1 /\ SR # 0)
  <2> DEFINE sr == SR
  <2>1. sr \in {0, 4, 5}
    OBVIOUS
  <2> HIDE DEF sr
  <2>2. /\ Bit(sr, 1) <=> (sr \div 2) % 2 = 1
        /\ Bit(sr, 2) <=> (sr \div 4) % 2 = 1
        /\ Bit(sr, 3) <=> (sr \div 8) % 2 = 1
        /\ Bit(sr, 4) <=> (sr \div 16) % 2 = 1
    BY <1>1 DEF Bit
  <2>3. ~Bit(sr, 1) /\ (Bit(sr, 2) <=> sr # 0) /\ ~Bit(sr, 3) /\ ~Bit(sr, 4)
    BY <2>1, <2>2
  <2> QED
    BY <1>2, <2>3 DEF enabled_int, sr
<1> QED
  BY <1>1, <1>3 DEF Bit

(* An access of a byte in the RAM. *)
LEMMA ByteAccess ==
    ASSUME TypeInv, ~byte_mode, SR \in {0, 4, 5}, NEW a \in Addresses
    PROVE  /\ byteExchanged(FALSE) = {1} /\ AccessValid(a, 1)
           /\ LevelAfter(a, 1) = int_level /\ PCAfter(a, 1) = NextPC
           /\ loadWordRAM(a, 1) = {ram[a]}
           /\ \A v \in Byte : putRAMWord(a, 1, v) = {[ram EXCEPT ![a] = v]}
<1>1. byteExchanged(FALSE) = {1}
  BY Machine, Enabled DEF byteExchanged, Ints
<1>2. a \in 0..95 /\ a + 1 \in 1..96
  BY Machine
<1>3. AccessValid(a, 1)
  BY <1>2, Machine DEF AccessValid
<1>4. AlignmentOk(a, 1)
  BY <1>2 DEF AlignmentOk
<1>5. LevelAfter(a, 1) = int_level /\ PCAfter(a, 1) = NextPC
  BY <1>4 DEF LevelAfter, PCAfter, PCInAccess, NextPC, Trap
<1>6. ram \in [Addresses -> Byte] /\ ram[a] \in 0..255
  BY DEF TypeInv, Typed, RamOK, Byte
<1>7. loadWordRAM(a, 1) = {ram[a]}
  <2> DEFINE f == [k \in {k \in 0..(1 - 1) : 8 * k < HostBits} |-> ram[a + k] * 2^(8 * k)]
  <2>1. {k \in 0..(1 - 1) : 8 * k < HostBits} = {0}
    BY Sizes
  <2>2. DOMAIN f = {0} /\ f[0] = ram[a]
    <3>1. 2^(8 * 0) = 1
      OBVIOUS
    <3>2. ram[a + 0] = ram[a] /\ ram[a] \in Nat
      BY <1>2, <1>6 DEF Byte
    <3> QED
      BY <2>1, <3>1, <3>2
  <2>3. SumFunction(f) = ram[a]
    <3> HIDE DEF f
    <3>1. SumFunctionOnSet(f, {0}) = f[0] + SumFunctionOnSet(f, {0} \ {0})
      <4>1. IsFiniteSet({0})
        BY FS_Singleton
      <4>2. \A i \in {0} : f[i] \in Nat
        BY <2>2, <1>6
      <4> QED
        BY <4>1, <4>2, SumTake
    <3>2. SumFunctionOnSet(f, {0} \ {0}) = 0
      <4>1. {0} \ {0} = {}
        OBVIOUS
      <4> QED
        BY <4>1, SumEmpty
    <3>3. SumFunctionOnSet(f, {0}) = ram[a]
      BY <1>6, <2>2, <3>1, <3>2
    <3> QED
      BY <2>2, <3>3, Zenon DEF SumFunction
  <2>4. (ram[a] % HostMod) = ram[a]
    <3> DEFINE v == ram[a]
    <3>1. v \in 0..255
      BY <1>6
    <3> HIDE DEF v
    <3>2. (v % HostMod) = v
      BY <3>1, Machine
    <3> QED
      BY <3>2 DEF v
  <2> QED
    BY <1>2, <2>3, <2>4, Machine DEF loadWordRAM
<1>8. ASSUME NEW v \in Byte
      PROVE  putRAMWord(a, 1, v) = {[ram EXCEPT ![a] = v]}
  <2> DEFINE put == [b \in Addresses |->
                       IF Offset(b, a) < 1
                       THEN ShiftRight(v, 8 * (Offset(b, a) % 1)) % 256 ELSE ram[b]]
  <2>1. putRAMWord(a, 1, v) = {put}
    <3>1. (IF 1 > 8 THEN {8, 1} ELSE {1}) = {1}
      OBVIOUS
    <3> QED
      BY <3>1 DEF putRAMWord
  <2>2. ASSUME NEW b \in Addresses
        PROVE  put[b] = [ram EXCEPT ![a] = v][b]
    <3>1. b \in 0..95 /\ b - a \in -95..95
      BY <1>2, Machine
    <3>2. Offset(b, a) < 1 <=> b = a
      <4>1. Offset(b, a) = IF b >= a THEN b - a ELSE b - a + HostMod
        BY <1>2, <3>1, Machine DEF Offset
      <4> QED
        BY <1>2, <3>1, <4>1, Machine
    <3>3. ShiftRight(v, 8 * (Offset(a, a) % 1)) % 256 = v
      <4>1. Offset(a, a) = 0
        BY <1>2, Machine DEF Offset
      <4>2. ShiftRight(v, 0) = v \div 2^0 /\ 2^0 = 1
        BY Sizes DEF ShiftRight
      <4> QED
        BY <4>1, <4>2 DEF Byte
    <3> QED
      BY <1>6, <3>2, <3>3
  <2>3. put = [ram EXCEPT ![a] = v]
    <3>1. put = [b \in Addresses |-> put[b]]
      OBVIOUS
    <3> HIDE DEF put
    <3> QED
      BY <1>6, <2>2, <3>1
  <2> QED
    BY <2>1, <2>3
<1> QED
  BY <1>1, <1>3, <1>5, <1>7, <1>8

-----------------------------------------------------------------------------
(* What an instruction of the two does.                                    *)

(* The turn executes the byte b. *)
Runs(b) ==
    /\ TypeInv /\ RunInst /\ PC \in 4..87 /\ ram[PC] = b
    /\ ~byte_mode /\ SR \in {0, 4, 5} /\ WR \in Byte

(* It leaves these registers and this RAM, and goes on to the I/O.         *)
Leaves(registers, memory) ==
    /\ reg' = registers /\ ram' = memory /\ phase' = "io"
    /\ UNCHANGED <<byte_mode, count_up, freq>>

Still == UNCHANGED <<active, int_level, routine>>

(* No other register than the PC and those of rs, no cell but those of as. *)
Moves(rs, as) ==
    /\ \A r \in 0..15 : r \notin rs /\ r # PC_REG => reg'[r] = reg[r]
    /\ \A a \in 0..95 : a \notin as => ram'[a] = ram[a]
    /\ phase' = "io" /\ UNCHANGED <<byte_mode, count_up, freq>>

LEMMA Decoding ==
    ASSUME NEW b, Runs(b)
    PROVE  /\ b \in 0..255 /\ PC \in 4..87 /\ NextPC = PC + 1
           /\ reg \in [0..15 -> Host] /\ DOMAIN reg = 0..15
           /\ ram \in [0..95 -> 0..255]
           /\ RegisterInst(b) \/ MemoryInst(b) \/ ModeInst(b)
           /\ UNCHANGED <<count_up, freq>>
<1>1. PC \in Addresses /\ PC \in 0..95
  BY Machine DEF Runs
<1>2. Fetched = {b}
  BY <1>1 DEF Fetched, Runs
<1>3. b \in 0..255
  BY <1>1 DEF Runs, TypeInv, Typed, RamOK, Byte
<1>4. RegisterInst(b) \/ MemoryInst(b) \/ ModeInst(b)
  BY <1>2 DEF Runs, RunInst
<1>5. NextPC = PC + 1
  BY <1>1, Machine DEF NextPC
<1>6. ram \in [0..95 -> 0..255]
  BY Machine DEF Runs, TypeInv, Typed, RamOK, Byte
<1> QED
  BY <1>1, <1>3, <1>4, <1>5, <1>6 DEF Runs, RunInst, TypeInv, Typed, RegOK

(* One byte is one instruction. *)
LEMMA OneOf ==
    ASSUME NEW b \in 0..255,
           RegisterInst(b) \/ MemoryInst(b) \/ ModeInst(b)
    PROVE  /\ Opperand(b) \in 0..11 \/ b \in {CC2, CMPNOT, JIF} => RegisterInst(b)
           /\ Opperand(b) \in {STR, LOAD} \/ b \in {ATOM, PUSH, POP} => MemoryInst(b)
           /\ b \in {QUIT, RETINT, SETINT + 1} => ModeInst(b)
<1>1. RegisterInst(b) =>
        \/ Opperand(b) \in 0..11
        \/ b \in {JIF, CC2, CMPNOT, DEBUG} \/ b \in 240..247
  BY DEF RegisterInst, Set, Read, Cpy, Alu, Compare, Jif, Debug, GetInt, GetIntStack, Ints,
     SET, READ, CPY, ADD, AND, OR, XOR, NOT, LSL, LSR, EQ, LES, GETINT, GETINTSTACK
<1>2. MemoryInst(b) =>
        Opperand(b) \in {STR, LOAD} \/ b \in {ATOM, PUSH, POP, CALL, RET}
  BY DEF MemoryInst, Str, Load, Atom, Push, Pop, Call, Ret
<1>3. ModeInst(b) => b \in {QUIT, TBM, RETINT} \/ b \in 236..239 \/ b \in 248..255
  BY DEF ModeInst, Quit, Tbm, SetInt, SetIntStack, SoftInt, RetInt, Ints, SETINT,
     SETINTSTACK, SOFTINT
<1> QED
  BY <1>1, <1>2, <1>3 DEF Opperand, STR, LOAD, JIF, CC2, CMPNOT, DEBUG, ATOM, PUSH, POP,
     CALL, RET, QUIT, TBM, RETINT, SETINT

LEMMA RegisterTurn ==
    ASSUME NEW b, Runs(b), Opperand(b) \in 0..11 \/ b \in {CC2, CMPNOT, JIF}
    PROVE  /\ Set(b) \/ Read(b) \/ Cpy(b) \/ Alu(b) \/ Compare(b) \/ Jif(b)
           /\ Leaves(reg', ram) /\ Still
<1>1. RegisterInst(b) /\ b \in 0..255
  BY Decoding, OneOf
<1>2. ~Debug(b) /\ \A n \in Ints : ~GetInt(b, n) /\ ~GetIntStack(b, n)
  BY <1>1 DEF Debug, GetInt, GetIntStack, Ints, Opperand, DEBUG, GETINT, GETINTSTACK, CC2,
     CMPNOT, JIF
<1> QED
  BY <1>1, <1>2, Decoding DEF RegisterInst, Leaves, Still

LEMMA WordTurn ==
    ASSUME NEW STATE v, SetWR(v), reg \in [0..15 -> Host], NextPC = PC + 1
    PROVE  reg' = [reg EXCEPT ![0] = v, ![14] = PC + 1]
<1>1. reg' = [[reg EXCEPT ![0] = v] EXCEPT ![14] = ([reg EXCEPT ![0] = v][14] + 1) % HostMod]
  BY DEF SetWR, Done, WR_REG, PC_REG
<1>2. [reg EXCEPT ![0] = v][14] = reg[14]
  OBVIOUS
<1>3. (reg[14] + 1) % HostMod = PC + 1
  BY DEF NextPC, PC, PC_REG
<1> QED
  BY <1>1, <1>2, <1>3

LEMMA Written ==
    ASSUME reg \in [0..15 -> Host], NEW r \in 0..15, r # 14, NEW STATE v, NEW STATE w,
           Leaves([reg EXCEPT ![r] = v, ![14] = w], ram)
    PROVE  Moves({r}, {}) /\ reg'[r] = v /\ PC' = w
<1>1. reg' = [reg EXCEPT ![r] = v, ![14] = w] /\ ram' = ram
  BY DEF Leaves
<1>2. reg'[r] = v /\ reg'[14] = w /\ \A n \in 0..15 : n # r /\ n # 14 => reg'[n] = reg[n]
  BY <1>1
<1> QED
  BY <1>1, <1>2 DEF Leaves, Moves, PC, PC_REG

LEMMA Jumped ==
    ASSUME reg \in [0..15 -> Host], NEW STATE w, Leaves([reg EXCEPT ![14] = w], ram)
    PROVE  Moves({}, {}) /\ PC' = w
<1>1. reg' = [reg EXCEPT ![14] = w] /\ ram' = ram
  BY DEF Leaves
<1>2. reg'[14] = w /\ \A n \in 0..15 : n # 14 => reg'[n] = reg[n]
  BY <1>1
<1> QED
  BY <1>1, <1>2 DEF Leaves, Moves, PC, PC_REG

LEMMA SetTurn ==
    ASSUME NEW c \in 0..15, Runs(Inst(SET, c))
    PROVE  Moves({0}, {}) /\ Still /\ WR' = c /\ PC' = PC + 1
<1> DEFINE b == Inst(SET, c)
<1>1. Opperand(b) = SET /\ RegOf(b) = c /\ b \in 32..47
  BY DEF Inst, Opperand, RegOf, SET
<1> HIDE DEF b
<1>2. Runs(b)
  BY DEF b
<1>3. ~Read(b) /\ ~Cpy(b) /\ ~Alu(b) /\ ~Compare(b) /\ ~Jif(b)
  BY <1>1 DEF Read, Cpy, Alu, Compare, Jif, SET, READ, CPY, ADD, AND, OR, XOR, NOT, LSL, LSR,
     EQ, LES, CC2, CMPNOT, JIF
<1>4. Set(b) /\ Leaves(reg', ram) /\ Still
  BY <1>1, <1>2, <1>3, RegisterTurn DEF SET
<1>9. Leaves([reg EXCEPT ![0] = c, ![14] = PC + 1], ram) /\ Still
  BY <1>1, <1>2, <1>4, Decoding, WordTurn DEF Set, Leaves
<1> QED
  <2>1. reg \in [0..15 -> Host] /\ 0 \in 0..15 /\ 0 # 14
    BY <1>2, Decoding
  <2>2. Moves({0}, {}) /\ reg'[0] = c /\ PC' = PC + 1
    BY <1>9, <2>1, Written
  <2> QED
    BY <1>2, <1>9, <2>2 DEF WR, WR_REG

LEMMA ReadTurn ==
    ASSUME NEW r \in 0..15, Runs(Inst(READ, r))
    PROVE  Moves({0}, {}) /\ Still /\ WR' = reg[r] /\ PC' = PC + 1
<1> DEFINE b == Inst(READ, r)
<1>1. Opperand(b) = READ /\ RegOf(b) = r /\ b \in 0..15
  BY DEF Inst, Opperand, RegOf, READ
<1> HIDE DEF b
<1>2. Runs(b)
  BY DEF b
<1>3. ~Set(b) /\ ~Cpy(b) /\ ~Alu(b) /\ ~Compare(b) /\ ~Jif(b)
  BY <1>1 DEF Set, Cpy, Alu, Compare, Jif, SET, READ, CPY, ADD, AND, OR, XOR, NOT, LSL, LSR,
     EQ, LES, CC2, CMPNOT, JIF
<1>4. Read(b) /\ Leaves(reg', ram) /\ Still
  BY <1>1, <1>2, <1>3, RegisterTurn DEF READ
<1>9. Leaves([reg EXCEPT ![0] = reg[r], ![14] = PC + 1], ram) /\ Still
  BY <1>1, <1>2, <1>4, Decoding, WordTurn DEF Read, Leaves
<1> QED
  <2>1. reg \in [0..15 -> Host] /\ 0 \in 0..15 /\ 0 # 14
    BY <1>2, Decoding
  <2>2. Moves({0}, {}) /\ reg'[0] = reg[r] /\ PC' = PC + 1
    BY <1>9, <2>1, Written
  <2> QED
    BY <1>2, <1>9, <2>2 DEF WR, WR_REG

LEMMA CpyTurn ==
    ASSUME NEW r \in 0..15, Runs(Inst(CPY, r))
    PROVE  /\ r # 14 => Moves({r}, {}) /\ reg'[r] = WR /\ PC' = PC + 1
           /\ r = 14 => Moves({}, {}) /\ PC' = WR
           /\ Still
<1> DEFINE b == Inst(CPY, r)
<1>1. Opperand(b) = CPY /\ RegOf(b) = r /\ b \in 16..31
  BY DEF Inst, Opperand, RegOf, CPY
<1> HIDE DEF b
<1>2. Runs(b)
  BY DEF b
<1>3. ~Set(b) /\ ~Read(b) /\ ~Alu(b) /\ ~Compare(b) /\ ~Jif(b)
  BY <1>1 DEF Set, Read, Alu, Compare, Jif, SET, READ, CPY, ADD, AND, OR, XOR, NOT, LSL, LSR,
     EQ, LES, CC2, CMPNOT, JIF
<1>4. Cpy(b) /\ Leaves(reg', ram) /\ Still
  BY <1>1, <1>2, <1>3, RegisterTurn DEF CPY
<1>5. reg \in [0..15 -> Host] /\ NextPC = PC + 1
  BY <1>2, Decoding
<1>9. /\ r # 14 => Leaves([reg EXCEPT ![r] = WR, ![14] = PC + 1], ram)
      /\ r = 14 => Leaves([reg EXCEPT ![14] = WR], ram)
      /\ Still
  BY <1>1, <1>4, <1>5 DEF Cpy, Done, Leaves, NextPC, PC, PC_REG
<1> QED
  BY <1>5, <1>9, Written, Jumped

LEMMA AddTurn ==
    ASSUME Runs(Inst(ADD, 0))
    PROVE  Moves({0}, {}) /\ Still /\ WR' = (WR + WR) % 256 /\ PC' = PC + 1
<1> DEFINE b == Inst(ADD, 0)
<1>1. Opperand(b) = ADD /\ RegOf(b) = 0 /\ b = 48
  BY DEF Inst, Opperand, RegOf, ADD
<1> HIDE DEF b
<1>2. Runs(b)
  BY DEF b
<1>3. ~Set(b) /\ ~Read(b) /\ ~Cpy(b) /\ ~Compare(b) /\ ~Jif(b)
  BY <1>1 DEF Set, Read, Cpy, Compare, Jif, SET, READ, CPY, ADD, EQ, LES, CMPNOT, JIF
<1>4. Alu(b) /\ Leaves(reg', ram) /\ Still
  BY <1>1, <1>2, <1>3, RegisterTurn DEF ADD
<1>5. SetWR((WR + WR) % 256)
  BY <1>1, <1>4, Machine DEF Alu, WR, WR_REG, ADD, AND, OR, XOR, NOT, LSL, LSR, CC2
<1>9. Leaves([reg EXCEPT ![0] = (WR + WR) % 256, ![14] = PC + 1], ram) /\ Still
  BY <1>2, <1>4, <1>5, Decoding, WordTurn DEF Leaves
<1> QED
  <2>1. reg \in [0..15 -> Host] /\ 0 \in 0..15 /\ 0 # 14
    BY <1>2, Decoding
  <2>2. Moves({0}, {}) /\ reg'[0] = (WR + WR) % 256 /\ PC' = PC + 1
    BY <1>9, <2>1, Written
  <2> QED
    BY <1>2, <1>9, <2>2 DEF WR, WR_REG

LEMMA CmpnotTurn ==
    ASSUME Runs(CMPNOT)
    PROVE  /\ Moves({13}, {}) /\ Still /\ PC' = PC + 1
           /\ SR' = IF SR = 5 THEN 4 ELSE SR + 1
<1>1. /\ ~Set(CMPNOT) /\ ~Read(CMPNOT) /\ ~Cpy(CMPNOT) /\ ~Alu(CMPNOT) /\ ~Jif(CMPNOT)
      /\ Opperand(CMPNOT) \notin {EQ, LES}
  BY DEF Set, Read, Cpy, Alu, Jif, Opperand, SET, READ, CPY, ADD, AND, OR, XOR, NOT, LSL, LSR,
     EQ, LES, CC2, CMPNOT, JIF
<1>2. Compare(CMPNOT) /\ Leaves(reg', ram) /\ Still
  BY <1>1, RegisterTurn
<1>3. Done(WithComp(reg, SR # 5))
  BY <1>1, <1>2, Enabled, 0 \in Ints DEF Compare, Runs, Ints
<1>4. reg \in [0..15 -> Host] /\ NextPC = PC + 1 /\ SR \in {0, 4, 5}
  BY Decoding DEF Runs
<1> DEFINE sr == IF SR = 5 THEN 4 ELSE SR + 1
<1>5. WithComp(reg, SR # 5) = [reg EXCEPT ![13] = sr]
  <2>1. (SR - (SR % 2)) + (IF SR # 5 THEN 1 ELSE 0) = sr
    BY <1>4
  <2> QED
    BY <1>4, <2>1, Zenon DEF WithComp, SR, SR_REG
<1>6. reg' = [[reg EXCEPT ![13] = sr] EXCEPT ![14] = PC + 1]
  <2>1. [reg EXCEPT ![13] = sr][14] = reg[14]
    BY <1>4
  <2>2. (reg[14] + 1) % HostMod = PC + 1
    BY <1>4 DEF NextPC, PC, PC_REG
  <2> QED
    BY <1>3, <1>5, <2>1, <2>2 DEF Done, PC_REG
<1> HIDE DEF sr
<1>7. Moves({13}, {}) /\ reg'[13] = sr /\ PC' = PC + 1
  <2>1. Leaves([reg EXCEPT ![13] = sr, ![14] = PC + 1], ram) /\ 13 \in 0..15 /\ 13 # 14
    BY <1>2, <1>6 DEF Leaves
  <2> QED
    BY <1>4, <2>1, Written
<1> QED
  BY <1>2, <1>7 DEF SR, SR_REG, sr

LEMMA JifTurn ==
    ASSUME Runs(JIF)
    PROVE  Moves({}, {}) /\ Still /\ PC' = IF SR = 5 THEN WR ELSE PC + 1
<1>1. /\ ~Set(JIF) /\ ~Read(JIF) /\ ~Cpy(JIF) /\ ~Alu(JIF) /\ ~Compare(JIF)
  BY DEF Set, Read, Cpy, Alu, Compare, Opperand, SET, READ, CPY, ADD, AND, OR, XOR, NOT, LSL,
     LSR, EQ, LES, CC2, CMPNOT, JIF
<1>2. Jif(JIF) /\ Leaves(reg', ram) /\ Still
  BY <1>1, RegisterTurn
<1>3. Bit(SR, 0) <=> SR = 5
  BY Enabled DEF Runs, Ints
<1>4. reg \in [0..15 -> Host] /\ NextPC = PC + 1
  BY Decoding
<1> DEFINE w == IF SR = 5 THEN WR ELSE PC + 1
<1>5. Leaves([reg EXCEPT ![14] = w], ram)
  BY <1>2, <1>3, <1>4 DEF Jif, Done, Leaves, NextPC, PC, PC_REG
<1> HIDE DEF w
<1>6. Moves({}, {}) /\ PC' = w
  BY <1>4, <1>5, Jumped
<1> QED
  BY <1>2, <1>6 DEF w

LEMMA MemoryTurn ==
    ASSUME NEW b, Runs(b), Opperand(b) \in {STR, LOAD} \/ b \in {ATOM, PUSH, POP}
    PROVE  /\ Opperand(b) = STR => Str(b)
           /\ Opperand(b) = LOAD => Load(b)
           /\ b = ATOM => Atom(b)
           /\ b = PUSH => Push(b)
           /\ b = POP => Pop(b)
           /\ UNCHANGED <<byte_mode, active, routine, count_up, freq>>
<1>1. MemoryInst(b) /\ b \in 0..255
  BY Decoding, OneOf
<1>2. Str(b) \/ Load(b) \/ Atom(b) \/ Push(b) \/ Pop(b)
  BY <1>1 DEF MemoryInst, Call, Ret, Opperand, STR, LOAD, ATOM, PUSH, POP, CALL, RET
<1>3. /\ Str(b) => Opperand(b) = STR
      /\ Load(b) => Opperand(b) = LOAD
      /\ Atom(b) => b = ATOM
      /\ Push(b) => b = PUSH
      /\ Pop(b) => b = POP
  BY DEF Str, Load, Atom, Push, Pop
<1>4. UNCHANGED <<byte_mode, active, routine, count_up, freq>>
  BY <1>1, Decoding DEF MemoryInst
<1> QED
  BY <1>1, <1>2, <1>3, <1>4 DEF Opperand, STR, LOAD, ATOM, PUSH, POP

LEMMA StrTurn ==
    ASSUME NEW r \in 0..15, Runs(Inst(STR, r)), reg[r] \in Addresses
    PROVE  /\ Moves({}, {reg[r]}) /\ Still /\ PC' = PC + 1
           /\ ram'[reg[r]] = WR
<1> DEFINE b == Inst(STR, r)
<1>1. Opperand(b) = STR /\ RegOf(b) = r
  BY DEF Inst, Opperand, RegOf, STR
<1> HIDE DEF b
<1>2. Runs(b)
  BY DEF b
<1>3. Str(b) /\ UNCHANGED <<byte_mode, active, routine, count_up, freq>>
  BY <1>1, <1>2, MemoryTurn
<1> DEFINE a == reg[r]
<1>4. /\ byteExchanged(FALSE) = {1} /\ AccessValid(a, 1)
      /\ LevelAfter(a, 1) = int_level /\ PCAfter(a, 1) = NextPC
      /\ putRAMWord(a, 1, WR) = {[ram EXCEPT ![a] = WR]}
  BY <1>2, ByteAccess DEF Runs
<1>5. /\ ram' \in putRAMWord(a, 1, WR)
      /\ int_level' = LevelAfter(a, 1)
      /\ reg' = [reg EXCEPT ![PC_REG] = PCAfter(a, 1)]
      /\ phase' = "io"
  BY <1>1, <1>3, <1>4 DEF Str
<1>6. a \in 0..95 /\ reg' = [reg EXCEPT ![14] = PC + 1] /\ ram' = [ram EXCEPT ![a] = WR]
  BY <1>2, <1>3, <1>4, <1>5, Decoding, Machine DEF PC_REG
<1> HIDE DEF a
<1>7. Moves({}, {a})
  BY <1>2, <1>3, <1>5, <1>6, Decoding DEF Moves
<1>8. PC' = PC + 1 /\ ram'[a] = WR
  <2>1. reg \in [0..15 -> Host] /\ ram \in [0..95 -> 0..255]
    BY <1>2, Decoding
  <2>2. reg'[14] = PC + 1
    BY <1>6, <2>1
  <2>3. ram'[a] = WR
    BY <1>6, <2>1
  <2> QED
    BY <2>2, <2>3 DEF PC, PC_REG
<1> QED
  BY <1>3, <1>4, <1>5, <1>7, <1>8 DEF a, Still

LEMMA LoadTurn ==
    ASSUME Runs(Inst(LOAD, 0)), WR \in Addresses
    PROVE  Moves({0}, {}) /\ Still /\ WR' = ram[WR] /\ PC' = PC + 1
<1> DEFINE b == Inst(LOAD, 0)
<1>1. Opperand(b) = LOAD /\ RegOf(b) = 0
  BY DEF Inst, Opperand, RegOf, LOAD
<1> HIDE DEF b
<1>2. Runs(b)
  BY DEF b
<1>3. Load(b) /\ UNCHANGED <<byte_mode, active, routine, count_up, freq>>
  BY <1>1, <1>2, MemoryTurn
<1>4. /\ byteExchanged(FALSE) = {1} /\ AccessValid(WR, 1)
      /\ LevelAfter(WR, 1) = int_level /\ PCAfter(WR, 1) = NextPC
      /\ loadWordRAM(WR, 1) = {ram[WR]}
  BY <1>2, ByteAccess DEF Runs
<1>5. /\ \E value \in loadWordRAM(WR, 1) :
            reg' = [reg EXCEPT ![WR_REG] = value, ![PC_REG] = PCAfter(WR, 1)]
      /\ int_level' = LevelAfter(WR, 1)
      /\ phase' = "io"
      /\ UNCHANGED ram
  BY <1>1, <1>3, <1>4 DEF Load, WR, WR_REG
<1>9. Leaves([reg EXCEPT ![0] = ram[WR], ![14] = PC + 1], ram) /\ Still
  BY <1>2, <1>3, <1>4, <1>5, Decoding DEF Leaves, Still, PC_REG, WR_REG
<1> QED
  <2>1. reg \in [0..15 -> Host] /\ 0 \in 0..15 /\ 0 # 14
    BY <1>2, Decoding
  <2>2. Moves({0}, {}) /\ reg'[0] = ram[WR] /\ PC' = PC + 1
    BY <1>9, <2>1, Written
  <2> QED
    BY <1>2, <1>9, <2>2 DEF WR, WR_REG

LEMMA AtomTurn ==
    ASSUME Runs(ATOM), WR \in Addresses
    PROVE  /\ Moves({13}, {WR}) /\ Still /\ PC' = PC + 1
           /\ ram'[WR] = 1
           /\ SR' = (IF SR = 5 THEN 4 ELSE SR) + (IF ram[WR] = 0 THEN 1 ELSE 0)
<1>1. Atom(ATOM) /\ UNCHANGED <<byte_mode, active, routine, count_up, freq>>
  BY MemoryTurn
<1>2. /\ byteExchanged(FALSE) = {1} /\ AccessValid(WR, 1)
      /\ LevelAfter(WR, 1) = int_level /\ PCAfter(WR, 1) = NextPC
      /\ loadWordRAM(WR, 1) = {ram[WR]}
      /\ putRAMWord(WR, 1, 1) = {[ram EXCEPT ![WR] = 1]}
  <2>1. TypeInv /\ ~byte_mode /\ SR \in {0, 4, 5} /\ 1 \in Byte
    BY DEF Runs, Byte
  <2> QED
    BY <2>1, ByteAccess
<1>3. /\ ram' \in putRAMWord(WR, 1, 1)
      /\ int_level' = LevelAfter(WR, 1)
      /\ \E value \in loadWordRAM(WR, 1) :
            reg' = [WithComp(reg, value = 0) EXCEPT ![PC_REG] = PCAfter(WR, 1)]
      /\ phase' = "io"
  BY <1>1, <1>2 DEF Atom
<1>4. reg \in [0..15 -> Host] /\ NextPC = PC + 1 /\ SR \in {0, 4, 5}
  BY Decoding DEF Runs
<1> DEFINE sr == (IF SR = 5 THEN 4 ELSE SR) + (IF ram[WR] = 0 THEN 1 ELSE 0)
<1>5. WithComp(reg, ram[WR] = 0) = [reg EXCEPT ![13] = sr]
  <2>1. (SR - (SR % 2)) + (IF ram[WR] = 0 THEN 1 ELSE 0) = sr
    BY <1>4
  <2> QED
    BY <1>4, <2>1, Zenon DEF WithComp, SR, SR_REG
<1>6. /\ reg' = [[reg EXCEPT ![13] = sr] EXCEPT ![14] = PC + 1]
      /\ ram' = [ram EXCEPT ![WR] = 1]
  BY <1>2, <1>3, <1>4, <1>5 DEF PC_REG
<1> HIDE DEF sr
<1> DEFINE a == WR
<1>7. a \in 0..95 /\ ram' = [ram EXCEPT ![a] = 1]
  BY <1>6, Machine
<1> HIDE DEF a
<1>8. Moves({13}, {a})
  <2>1. \A r \in 0..15 : r \notin {13} /\ r # PC_REG => reg'[r] = reg[r]
    BY <1>4, <1>6 DEF PC_REG
  <2>2. \A c \in 0..95 : c \notin {a} => ram'[c] = ram[c]
    BY <1>7, Decoding
  <2> QED
    BY <1>1, <1>3, <2>1, <2>2 DEF Moves
<1>9. PC' = PC + 1 /\ ram'[a] = 1 /\ SR' = sr
  <2>1. reg'[14] = PC + 1 /\ reg'[13] = sr
    BY <1>4, <1>6
  <2>2. ram'[a] = 1
    BY <1>7, Decoding
  <2> QED
    BY <2>1, <2>2 DEF PC, SR, PC_REG, SR_REG
<1> QED
  BY <1>1, <1>2, <1>3, <1>8, <1>9 DEF Still, a, sr

LEMMA PushTurn ==
    ASSUME Runs(PUSH), SP \in 0..94
    PROVE  /\ Moves({15}, {SP}) /\ Still /\ PC' = PC + 1
           /\ SP' = SP + 1 /\ ram'[SP] = WR
<1>1. Push(PUSH) /\ UNCHANGED <<byte_mode, active, routine, count_up, freq>>
  BY MemoryTurn
<1>2. /\ AccessValid(SP, 1)
      /\ LevelAfter(SP, 1) = int_level /\ PCAfter(SP, 1) = NextPC
      /\ putRAMWord(SP, 1, WR) = {[ram EXCEPT ![SP] = WR]}
  <2>1. TypeInv /\ ~byte_mode /\ SR \in {0, 4, 5} /\ WR \in Byte
    BY DEF Runs
  <2>2. SP \in Addresses
    BY Machine
  <2> QED
    BY <2>1, <2>2, ByteAccess
<1>3. /\ ram' \in putRAMWord(SP, 1, WR)
      /\ int_level' = LevelAfter(SP, 1)
      /\ reg' = [reg EXCEPT ![SP_REG] = Above(SP), ![PC_REG] = PCAfter(SP, 1)]
      /\ phase' = "io"
  BY <1>1, <1>2, Machine DEF Push
<1>4. Above(SP) = SP + 1
  BY Machine DEF Above
<1>5. /\ reg' = [reg EXCEPT ![15] = SP + 1, ![14] = PC + 1]
      /\ ram' = [ram EXCEPT ![SP] = WR]
  BY <1>2, <1>3, <1>4, Decoding DEF PC_REG, SP_REG
<1>6. /\ reg'[15] = SP + 1 /\ reg'[14] = PC + 1
      /\ \A r \in 0..15 : r # 15 /\ r # 14 => reg'[r] = reg[r]
  <2>1. reg \in [0..15 -> Host]
    BY Decoding
  <2> QED
    BY <1>5, <2>1
<1>7. ram'[SP] = WR /\ \A a \in 0..95 : a # SP => ram'[a] = ram[a]
  <2> DEFINE sp == SP
  <2>1. ram \in [0..95 -> 0..255]
    BY Decoding
  <2>2. sp \in 0..95 /\ ram' = [ram EXCEPT ![sp] = WR]
    BY <1>5
  <2> HIDE DEF sp
  <2>3. ram'[sp] = WR /\ \A a \in 0..95 : a # sp => ram'[a] = ram[a]
    BY <2>1, <2>2
  <2> QED
    BY <2>3 DEF sp
<1>8. Moves({15}, {SP}) /\ PC' = PC + 1 /\ SP' = SP + 1
  <2>1. PC' = reg'[14] /\ SP' = reg'[15] /\ PC_REG = 14
    BY DEF PC, SP, PC_REG, SP_REG
  <2> QED
    BY <1>1, <1>3, <1>6, <1>7, <2>1 DEF Moves
<1> QED
  BY <1>1, <1>2, <1>3, <1>7, <1>8 DEF Still

LEMMA PopTurn ==
    ASSUME Runs(POP), SP \in 1..95
    PROVE  /\ Moves({15, 0}, {}) /\ Still /\ PC' = PC + 1
           /\ SP' = SP - 1 /\ WR' = ram[SP - 1]
<1>1. Pop(POP) /\ UNCHANGED <<byte_mode, active, routine, count_up, freq>>
  BY MemoryTurn
<1> DEFINE a == SP - 1
<1>2. a \in Addresses /\ Below(SP) = a
  BY Machine DEF Below
<1> HIDE DEF a
<1>3. /\ AccessValid(a, 1)
      /\ LevelAfter(a, 1) = int_level /\ PCAfter(a, 1) = NextPC
      /\ loadWordRAM(a, 1) = {ram[a]}
  BY <1>2, ByteAccess DEF Runs
<1>4. /\ \E value \in loadWordRAM(a, 1) :
            reg' = [reg EXCEPT ![SP_REG] = a, ![WR_REG] = value, ![PC_REG] = PCAfter(a, 1)]
      /\ int_level' = LevelAfter(a, 1)
      /\ phase' = "io"
      /\ UNCHANGED ram
  BY <1>1, <1>2, <1>3, Machine DEF Pop
<1>5. reg' = [reg EXCEPT ![15] = a, ![0] = ram[a], ![14] = PC + 1]
  BY <1>1, <1>3, <1>4, Decoding DEF PC_REG, SP_REG, WR_REG
<1>6. /\ reg'[15] = a /\ reg'[0] = ram[a] /\ reg'[14] = PC + 1
      /\ \A r \in 0..15 : r # 15 /\ r # 0 /\ r # 14 => reg'[r] = reg[r]
  <2>1. reg \in [0..15 -> Host]
    BY Decoding
  <2> QED
    BY <1>5, <2>1
<1>7. Moves({15, 0}, {}) /\ PC' = PC + 1 /\ SP' = a /\ WR' = ram[a]
  <2>1. PC' = reg'[14] /\ SP' = reg'[15] /\ WR' = reg'[0] /\ PC_REG = 14
    BY DEF PC, SP, WR, PC_REG, SP_REG, WR_REG
  <2> QED
    BY <1>1, <1>4, <1>6, <2>1 DEF Moves
<1> QED
  BY <1>1, <1>3, <1>4, <1>7 DEF Still, a

LEMMA ModeTurn ==
    ASSUME NEW b, Runs(b), b \in {QUIT, RETINT, SETINT + 1}
    PROVE  /\ b = QUIT => Quit(b)
           /\ b = RETINT => RetInt(b)
           /\ b = SETINT + 1 => SetInt(b, 1)
           /\ phase' = "io" /\ UNCHANGED <<ram, count_up, freq>>
<1>1. ModeInst(b) /\ b \in 0..255
  BY Decoding, OneOf
<1>2. Quit(b) \/ RetInt(b) \/ \E n \in Ints : SetInt(b, n)
  BY <1>1 DEF ModeInst, Tbm, SetIntStack, SoftInt, Ints, QUIT, RETINT, SETINT, TBM,
     SETINTSTACK, SOFTINT
<1>3. /\ Quit(b) => b = QUIT
      /\ RetInt(b) => b = RETINT
      /\ \A n \in Ints : SetInt(b, n) => b = SETINT + n
  BY DEF Quit, RetInt, SetInt
<1> QED
  BY <1>1, <1>2, <1>3, Decoding DEF ModeInst, Ints, QUIT, RETINT, SETINT

LEMMA QuitTurn ==
    ASSUME Runs(QUIT)
    PROVE  /\ Moves({}, {}) /\ PC' = PC + 1
           /\ active' = FALSE /\ UNCHANGED <<int_level, routine>>
<1>1. Quit(QUIT) /\ phase' = "io" /\ UNCHANGED <<ram, count_up, freq>>
  BY ModeTurn
<1>9. /\ Leaves([reg EXCEPT ![14] = PC + 1], ram)
      /\ active' = FALSE /\ UNCHANGED <<int_level, routine>>
  BY <1>1, Decoding DEF Quit, Done, Leaves, NextPC, PC, PC_REG
<1> QED
  BY <1>9, Decoding, Jumped

LEMMA SetintTurn ==
    ASSUME Runs(SETINT + 1)
    PROVE  /\ Moves({}, {}) /\ PC' = PC + 1
           /\ routine' = [routine EXCEPT ![1] = WR] /\ UNCHANGED <<active, int_level>>
<1>1. SetInt(SETINT + 1, 1) /\ phase' = "io" /\ UNCHANGED <<ram, count_up, freq>>
  BY ModeTurn
<1>2. reg' = [reg EXCEPT ![14] = PC + 1]
  BY <1>1, Decoding DEF SetInt, Done, NextPC, PC, PC_REG
<1>3. Leaves([reg EXCEPT ![14] = PC + 1], ram)
  BY <1>1, <1>2 DEF SetInt, Leaves
<1>4. reg \in [0..15 -> Host]
  BY Decoding
<1>5. Moves({}, {}) /\ PC' = PC + 1
  BY <1>3, <1>4, Jumped
<1> QED
  BY <1>1, <1>5 DEF SetInt

LEMMA RetintTurn ==
    ASSUME Runs(RETINT), int_level.level = 1
    PROVE  /\ Moves({}, {}) /\ PC' = int_level.routine_stack[1]
           /\ UNCHANGED <<active, routine>>
           /\ int_level' = [int_level EXCEPT !.level = int_level.level_stack[1]]
<1>1. RetInt(RETINT) /\ phase' = "io" /\ UNCHANGED <<ram, count_up, freq>>
  BY ModeTurn
<1>9. /\ Leaves([reg EXCEPT ![14] = int_level.routine_stack[1]], ram)
      /\ UNCHANGED <<active, routine>>
      /\ int_level' = [int_level EXCEPT !.level = int_level.level_stack[1]]
  BY <1>1 DEF RetInt, Leaves, PC_REG, LEVEL_NORMAL
<1> QED
  BY <1>9, Decoding, Jumped

-----------------------------------------------------------------------------
(* The inductive invariant: where the program and the routine are, what    *)
(* each relies on in the registers and the RAM, and who holds the lock.    *)

(* Where the two are.  p is the next instruction of the program, whether   *)
(* it runs or is interrupted; the routine is at PC.                        *)
InRoutine == int_level.level = 1

Places ==
    /\ ProgramPC \in (4..7) \cup (16..50)
    /\ int_level.level \in {1, LEVEL_NORMAL}
    /\ InRoutine => /\ PC \in 60..81 /\ ProgramPC \in 29..49
                    /\ int_level.level_stack[1] = LEVEL_NORMAL
    /\ active <=> ProgramPC # 50
    /\ ~active => phase \in {"io", "returned"}
    /\ phase # "RET_MEMORY" /\ (phase = "returned" => ~active)
    /\ byte_mode = FALSE

(* The program and the table stay as they were loaded. *)
CodeKept == \A a \in 4..87 : ram[a] = Image[a]

(* The stack of the program is empty, and the routine has on it what it    *)
(* gives back to the program: these are the registers of the program.      *)
ProgramWR == IF InRoutine /\ PC \in 62..80 THEN ram[90] ELSE WR
ProgramSR == IF InRoutine /\ PC \in 65..79 THEN ram[91] ELSE SR

StackKept ==
    /\ SP = IF ProgramPC \in (4..7) \cup (16..21) THEN 0
            ELSE IF ~InRoutine \/ PC \in {60, 81} THEN 90
            ELSE IF PC \in {61, 62, 79, 80} THEN 91
            ELSE 92
    /\ InRoutine /\ PC = 61 => ram[90] = WR
    /\ InRoutine /\ PC = 62 => WR = SR
    /\ InRoutine /\ PC \in {63, 64} => ram[91] = SR
    /\ InRoutine /\ PC = 79 => WR = ram[91]

(* What the program has in its registers. *)
ProgramRegisters ==
    LET p == ProgramPC
        wr == ProgramWR
    IN  /\ p = 4 => wr = 0
        /\ p = 5 => wr = 4
        /\ p = 6 => wr = 8
        /\ p \in {7, 16} => wr = 16
        /\ p = 17 => wr = 10
        /\ p = 18 => wr = 60
        /\ p \in 19..49 => routine[1] = 60
        /\ p = 20 => wr = 9
        /\ p = 21 => wr = 90
        /\ p = 23 => wr = 8
        /\ p \in {24, 30} => wr = 88
        /\ p \in 25..49 => reg[8] = 88
        /\ p \in {26, 42, 43, 48} => wr = 0
        /\ p = 28 => wr = 4
        /\ p = 33 => wr = 11
        /\ p = 34 => wr = 49
        /\ p \in {36, 37} => wr = 2
        /\ p \in 37..48 => reg[3] = 2
        /\ p \in {39, 46, 47} => wr = 1
        /\ p \in 41..48 => reg[5] \in Byte
        /\ p = 44 => wr = reg[5]
        /\ reg[6] = 0
        /\ WR \in Byte
        /\ p \in 29..50 => ProgramSR \in {4, 5}
        /\ p \notin 29..50 => ProgramSR = 0

(* What the routine has in its registers. *)
RoutineRegisters ==
    InRoutine =>
        /\ SR \in {4, 5}
        /\ PC = 64 => WR = 88
        /\ PC = 67 => WR = 12
        /\ PC = 68 => WR = 78
        /\ PC = 70 => WR = 13
        /\ PC = 71 => WR = Bang
        /\ PC \in {73, 74} => WR = 2
        /\ PC \in 74..75 => reg[2] = 2
        /\ PC = 75 => WR = 1
        /\ PC = 77 => WR = 0

(* Who holds the lock: ATOM found it free, the comparison bit says so up   *)
(* to the jump, and it is not released yet.                                *)
ProgramHolds ==
    \/ ProgramPC \in 35..48
    \/ ProgramPC = 31 /\ ProgramSR = 5
    \/ ProgramPC \in 32..34 /\ ProgramSR = 4

RoutineHolds ==
    /\ InRoutine
    /\ \/ PC \in 69..77
       \/ PC = 65 /\ SR = 5
       \/ PC \in 66..68 /\ SR = 4

Locked ==
    /\ ~(ProgramHolds /\ RoutineHolds)
    /\ ProgramHolds \/ RoutineHolds => ram[LockCell] = 1

(* The cells of the I/O: a command lasts for the turn that gave it, and the *)
(* character is that of who holds the lock.                                *)
Characters ==
    /\ \/ ram[IO_CMD] = IO_NOP
       \/ /\ phase = "io" /\ ram[IO_CMD] = IO_WRITE
          /\ IF InRoutine THEN PC = 76 ELSE PC = 47
       \/ phase = "io" /\ ram[IO_CMD] = IO_READ /\ ~InRoutine /\ PC = 38
    /\ ProgramPC \in 45..48 => ram[IO_COUT] = reg[5]
    /\ InRoutine /\ PC \in 72..77 => ram[IO_COUT] = Bang

LockInv ==
    /\ Places /\ CodeKept /\ StackKept /\ ProgramRegisters /\ RoutineRegisters
    /\ Locked /\ Characters

-----------------------------------------------------------------------------
(* The listing: the program from 4 and from 16, the table from 8, and the  *)
(* routine from 60.                                                        *)
LEMMA ImageBytes ==
    /\ Image[4] = Inst(SET, 4) /\ Image[5] = Inst(ADD, 0) /\ Image[6] = Inst(ADD, 0)
    /\ Image[7] = Inst(CPY, 14) /\ Image[16] = Inst(SET, 10) /\ Image[17] = Inst(LOAD, 0)
    /\ Image[18] = SETINT + 1 /\ Image[19] = Inst(SET, 9) /\ Image[20] = Inst(LOAD, 0)
    /\ Image[21] = Inst(CPY, 15) /\ Image[22] = Inst(SET, 8) /\ Image[23] = Inst(LOAD, 0)
    /\ Image[24] = Inst(CPY, 8) /\ Image[25] = Inst(SET, 0) /\ Image[26] = Inst(STR, 8)
    /\ Image[27] = Inst(SET, 4) /\ Image[28] = Inst(CPY, 13) /\ Image[29] = Inst(READ, 8)
    /\ Image[30] = ATOM /\ Image[31] = CMPNOT /\ Image[32] = Inst(SET, 11)
    /\ Image[33] = Inst(LOAD, 0) /\ Image[34] = JIF /\ Image[35] = Inst(SET, 2)
    /\ Image[36] = Inst(CPY, 3) /\ Image[37] = Inst(STR, 3) /\ Image[38] = Inst(SET, 1)
    /\ Image[39] = Inst(LOAD, 0) /\ Image[40] = Inst(CPY, 5) /\ Image[41] = Inst(SET, 0)
    /\ Image[42] = Inst(CPY, 6) /\ Image[43] = Inst(READ, 5) /\ Image[44] = Inst(STR, 6)
    /\ Image[45] = Inst(SET, 1) /\ Image[46] = Inst(STR, 3) /\ Image[47] = Inst(SET, 0)
    /\ Image[48] = Inst(STR, 8) /\ Image[49] = QUIT /\ Image[60] = PUSH
    /\ Image[61] = Inst(READ, 13) /\ Image[62] = PUSH /\ Image[63] = Inst(READ, 8)
    /\ Image[64] = ATOM /\ Image[65] = CMPNOT /\ Image[66] = Inst(SET, 12)
    /\ Image[67] = Inst(LOAD, 0) /\ Image[68] = JIF /\ Image[69] = Inst(SET, 13)
    /\ Image[70] = Inst(LOAD, 0) /\ Image[71] = Inst(STR, 6) /\ Image[72] = Inst(SET, 2)
    /\ Image[73] = Inst(CPY, 2) /\ Image[74] = Inst(SET, 1) /\ Image[75] = Inst(STR, 2)
    /\ Image[76] = Inst(SET, 0) /\ Image[77] = Inst(STR, 8) /\ Image[78] = POP
    /\ Image[79] = Inst(CPY, 13) /\ Image[80] = POP /\ Image[81] = RETINT
    /\ Image[8] = 88 /\ Image[9] = 90 /\ Image[10] = 60 /\ Image[11] = 49
    /\ Image[12] = 78 /\ Image[13] = Bang
<1> SUFFICES ASSUME NEW a \in 4..81, a \notin 50..59
             PROVE  Image[a] = Program[a + 1]
  BY DEF Program, Pad, MainProgram, Table, RoutineOf1, PrintBang, Release, TryLock, ReadChar,
     PrintChar, Setup, LoadConst, R, LockCell, WR_REG, SR_REG, PC_REG, SP_REG, LockRamSize
<1> QED
  BY DEF Image, LockRamSize

LEMMA Running ==
    ASSUME TypeInv, LockInv, phase = "run_inst", RunInst
    PROVE  /\ Runs(Image[PC]) /\ active
           /\ ram \in [0..95 -> 0..255] /\ reg \in [0..15 -> Host]
           /\ IF InRoutine THEN PC \in 60..81 /\ ProgramPC \in 29..49
              ELSE PC \in (4..7) \cup (16..49) /\ ProgramPC = PC
<1>1. active /\ ~byte_mode /\ WR \in Byte
  BY DEF LockInv, Places, ProgramRegisters
<1>2. IF InRoutine THEN PC \in 60..81 /\ ProgramPC \in 29..49
      ELSE PC \in (4..7) \cup (16..49) /\ ProgramPC = PC
  BY <1>1 DEF LockInv, Places, ProgramPC, InRoutine, LEVEL_NORMAL
<1>3. SR \in {0, 4, 5}
  BY <1>2 DEF LockInv, ProgramRegisters, RoutineRegisters, ProgramSR
<1>4. ram[PC] = Image[PC] /\ PC \in 4..87
  BY <1>2 DEF LockInv, CodeKept
<1> QED
  BY <1>1, <1>2, <1>3, <1>4, Machine DEF Runs, TypeInv, Typed, RamOK, RegOK, Byte

-----------------------------------------------------------------------------
(* What a turn of the program never disturbs. *)
ProgramFrame ==
    /\ Places' /\ CodeKept' /\ RoutineRegisters'
    /\ ~InRoutine' /\ ProgramPC = PC /\ ProgramPC' = PC'
    /\ ProgramWR = WR /\ ProgramWR' = WR' /\ ProgramSR = SR /\ ProgramSR' = SR'
    /\ ProgramHolds => ram[88] = 1
    /\ ram[2] = 0
    /\ SP = IF PC \in (4..7) \cup (16..21) THEN 0 ELSE 90

LEMMA ProgramMoves ==
    ASSUME LockInv, phase = "run_inst", ~InRoutine, active,
           NEW STATE rs, NEW STATE as, Moves(rs, as), \A a \in 4..87 : a \notin as,
           UNCHANGED int_level, PC \in (4..7) \cup (16..49), PC' \in (4..7) \cup (16..50),
           active' <=> PC' # 50
    PROVE  ProgramFrame
<1>1. /\ int_level.level = LEVEL_NORMAL /\ int_level' = int_level /\ phase' = "io"
      /\ byte_mode' = byte_mode /\ LEVEL_NORMAL = 4
  BY DEF LockInv, Places, InRoutine, Moves, LEVEL_NORMAL
<1>2. ~InRoutine' /\ ProgramPC = PC /\ ProgramPC' = PC'
  BY <1>1 DEF InRoutine, ProgramPC
<1>3. Places' /\ RoutineRegisters'
  BY <1>1, <1>2 DEF LockInv, Places, RoutineRegisters, InRoutine
<1>4. CodeKept'
  <2>1. \A a \in 4..87 : a \in 0..95 /\ ram[a] = Image[a]
    BY DEF LockInv, CodeKept
  <2> QED
    BY <2>1 DEF CodeKept, Moves
<1>5. /\ ProgramWR = WR /\ ProgramWR' = WR' /\ ProgramSR = SR /\ ProgramSR' = SR'
  BY <1>2 DEF ProgramWR, ProgramSR
<1>6. /\ ProgramHolds => ram[88] = 1
      /\ ram[2] = 0
      /\ SP = IF PC \in (4..7) \cup (16..21) THEN 0 ELSE 90
  BY <1>2 DEF LockInv, Locked, Characters, StackKept, LockCell, IO_CMD, IO_NOP
<1> QED
  BY <1>2, <1>3, <1>4, <1>5, <1>6 DEF ProgramFrame

LEMMA ProgramStep ==
    ASSUME TypeInv, LockInv, phase = "run_inst", RunInst, ~InRoutine
    PROVE  LockInv'
<1>1. /\ Runs(Image[PC]) /\ active /\ PC = ProgramPC
      /\ PC \in (4..7) \cup (16..49)
  BY Running
<1>2. ProgramWR = WR /\ ProgramSR = SR /\ routine \in [Ints -> Host]
  BY <1>1 DEF ProgramWR, ProgramSR, Runs, TypeInv, Typed, RoutineOK, InRoutine
<1>3. ram \in [0..95 -> 0..255]
  BY Running
<1>4. CASE PC \in {4, 16, 19, 22, 25, 27, 32, 35, 38, 41, 45, 47}
  <2>1. PICK c \in 0..15 :
          /\ Image[PC] = Inst(SET, c)
          /\ PC \in {4, 27} => c = 4
          /\ PC = 16 => c = 10
          /\ PC = 19 => c = 9
          /\ PC = 22 => c = 8
          /\ PC = 32 => c = 11
          /\ PC = 35 => c = 2
          /\ PC \in {38, 45} => c = 1
          /\ PC \in {25, 41, 47} => c = 0
    BY <1>4, ImageBytes
  <2>2. Moves({0}, {}) /\ Still /\ WR' = c /\ PC' = PC + 1
    BY <1>1, <2>1, SetTurn
  <2>3. ProgramFrame
    <3>1. PC' \in (4..7) \cup (16..50) /\ (active' <=> PC' # 50) /\ UNCHANGED int_level
      BY <1>1, <1>4, <2>1, <2>2 DEF Still
    <3>2. \A a \in 4..87 : a \notin {}
      OBVIOUS
    <3> QED
      BY <1>1, <2>2, <3>1, <3>2, ProgramMoves
  <2>4. /\ SR' = SR /\ SP' = SP /\ reg'[3] = reg[3] /\ reg'[5] = reg[5]
        /\ reg'[6] = reg[6] /\ reg'[8] = reg[8] /\ routine' = routine
        /\ ram'[0] = ram[0] /\ ram'[2] = ram[2] /\ ram'[88] = ram[88]
    BY <1>4, <2>1, <2>2 DEF Moves, Still, Ints, SR, SP, WR, PC_REG, SR_REG, SP_REG, WR_REG
  <2>5. StackKept'
    BY <1>4, <2>1, <2>2, <2>3, <2>4 DEF ProgramFrame, StackKept
  <2>6. ProgramRegisters'
    BY <1>4, <2>1, <2>2, <2>3, <2>4 DEF ProgramFrame, LockInv, ProgramRegisters, Byte
  <2>7. Locked'
    BY <1>4, <2>1, <2>2, <2>3, <2>4 DEF ProgramFrame, Locked, RoutineHolds, ProgramHolds,
       LockCell
  <2>8. Characters'
    BY <1>4, <2>1, <2>2, <2>3, <2>4 DEF ProgramFrame, LockInv, Characters, Bang, Moves,
       IO_COUT, IO_CMD, IO_NOP, IO_WRITE, IO_READ
  <2> QED
    BY <2>3, <2>5, <2>6, <2>7, <2>8 DEF ProgramFrame, LockInv
<1>5. CASE PC \in {5, 6}
  <2>1. Image[PC] = Inst(ADD, 0) /\ WR = IF PC = 5 THEN 4 ELSE 8
    BY <1>1, <1>5, ImageBytes, ~InRoutine DEF LockInv, ProgramRegisters, ProgramWR
  <2>2. Moves({0}, {}) /\ Still /\ WR' = WR + WR /\ PC' = PC + 1
    BY <1>1, <2>1, AddTurn
  <2>3. ProgramFrame
    <3>1. PC' \in (4..7) \cup (16..50) /\ (active' <=> PC' # 50) /\ UNCHANGED int_level
      BY <1>1, <1>5, <2>1, <2>2 DEF Still
    <3>2. \A a \in 4..87 : a \notin {}
      OBVIOUS
    <3> QED
      BY <1>1, <2>2, <3>1, <3>2, ProgramMoves
  <2>4. /\ SR' = SR /\ SP' = SP /\ reg'[3] = reg[3] /\ reg'[5] = reg[5]
        /\ reg'[6] = reg[6] /\ reg'[8] = reg[8] /\ routine' = routine
        /\ ram'[0] = ram[0] /\ ram'[2] = ram[2] /\ ram'[88] = ram[88]
    BY <1>5, <2>1, <2>2 DEF Moves, Still, Ints, SR, SP, WR, PC_REG, SR_REG, SP_REG, WR_REG
  <2>5. StackKept'
    BY <1>5, <2>1, <2>2, <2>3, <2>4 DEF ProgramFrame, StackKept
  <2>6. ProgramRegisters'
    BY <1>5, <2>1, <2>2, <2>3, <2>4 DEF ProgramFrame, LockInv, ProgramRegisters, Byte
  <2>7. Locked'
    BY <1>5, <2>1, <2>2, <2>3, <2>4 DEF ProgramFrame, Locked, RoutineHolds, ProgramHolds,
       LockCell
  <2>8. Characters'
    BY <1>5, <2>1, <2>2, <2>3, <2>4 DEF ProgramFrame, LockInv, Characters, Bang, Moves,
       IO_COUT, IO_CMD, IO_NOP, IO_WRITE, IO_READ
  <2> QED
    BY <2>3, <2>5, <2>6, <2>7, <2>8 DEF ProgramFrame, LockInv
<1>6. CASE PC \in {7}
  <2>1. /\ Image[PC] = Inst(CPY, 14)
        /\ WR = 16
    BY <1>1, <1>2, <1>6, ImageBytes DEF LockInv, ProgramRegisters
  <2>2. Moves({}, {}) /\ Still /\ PC' = 16
    BY <1>1, <2>1, CpyTurn
  <2>3. ProgramFrame
    <3>1. PC' \in (4..7) \cup (16..50) /\ (active' <=> PC' # 50) /\ UNCHANGED int_level
      BY <1>1, <1>6, <2>1, <2>2 DEF Still
    <3>2. \A a \in 4..87 : a \notin {}
      OBVIOUS
    <3> QED
      BY <1>1, <2>2, <3>1, <3>2, ProgramMoves
  <2>4. /\ WR' = WR /\ SR' = SR /\ SP' = SP /\ reg'[3] = reg[3] /\ reg'[5] = reg[5]
        /\ reg'[6] = reg[6] /\ reg'[8] = reg[8] /\ routine' = routine
        /\ ram'[0] = ram[0] /\ ram'[2] = ram[2] /\ ram'[88] = ram[88]
    BY <1>6, <2>1, <2>2 DEF Moves, Still, Ints, SR, SP, WR, PC_REG, SR_REG, SP_REG, WR_REG
  <2>5. StackKept'
    BY <1>6, <2>1, <2>2, <2>3, <2>4 DEF ProgramFrame, StackKept
  <2>6. ProgramRegisters'
    BY <1>6, <2>1, <2>2, <2>3, <2>4 DEF ProgramFrame, LockInv, ProgramRegisters, Byte
  <2>7. Locked'
    BY <1>6, <2>1, <2>2, <2>3, <2>4 DEF ProgramFrame, Locked, RoutineHolds, ProgramHolds,
       LockCell
  <2>8. Characters'
    BY <1>6, <2>1, <2>2, <2>3, <2>4 DEF ProgramFrame, LockInv, Characters, Bang, Moves,
       IO_COUT, IO_CMD, IO_NOP, IO_WRITE, IO_READ
  <2> QED
    BY <2>3, <2>5, <2>6, <2>7, <2>8 DEF ProgramFrame, LockInv
<1>7. CASE PC \in {21}
  <2>1. /\ Image[PC] = Inst(CPY, 15)
        /\ WR = 90
    BY <1>1, <1>2, <1>7, ImageBytes DEF LockInv, ProgramRegisters
  <2>2. Moves({15}, {}) /\ Still /\ reg'[15] = WR /\ PC' = PC + 1
    BY <1>1, <2>1, CpyTurn
  <2>3. ProgramFrame
    <3>1. PC' \in (4..7) \cup (16..50) /\ (active' <=> PC' # 50) /\ UNCHANGED int_level
      BY <1>1, <1>7, <2>1, <2>2 DEF Still
    <3>2. \A a \in 4..87 : a \notin {}
      OBVIOUS
    <3> QED
      BY <1>1, <2>2, <3>1, <3>2, ProgramMoves
  <2>4. /\ SP' = 90 /\ WR' = WR /\ SR' = SR /\ reg'[3] = reg[3] /\ reg'[5] = reg[5]
        /\ reg'[6] = reg[6] /\ reg'[8] = reg[8] /\ routine' = routine
        /\ ram'[0] = ram[0] /\ ram'[2] = ram[2] /\ ram'[88] = ram[88]
    BY <1>7, <2>1, <2>2 DEF Moves, Still, Ints, SR, SP, WR, PC_REG, SR_REG, SP_REG, WR_REG
  <2>5. StackKept'
    BY <1>7, <2>1, <2>2, <2>3, <2>4 DEF ProgramFrame, StackKept
  <2>6. ProgramRegisters'
    BY <1>7, <2>1, <2>2, <2>3, <2>4 DEF ProgramFrame, LockInv, ProgramRegisters, Byte
  <2>7. Locked'
    BY <1>7, <2>1, <2>2, <2>3, <2>4 DEF ProgramFrame, Locked, RoutineHolds, ProgramHolds,
       LockCell
  <2>8. Characters'
    BY <1>7, <2>1, <2>2, <2>3, <2>4 DEF ProgramFrame, LockInv, Characters, Bang, Moves,
       IO_COUT, IO_CMD, IO_NOP, IO_WRITE, IO_READ
  <2> QED
    BY <2>3, <2>5, <2>6, <2>7, <2>8 DEF ProgramFrame, LockInv
<1>8. CASE PC \in {24, 28, 36, 40, 42}
  <2>1. PICK r \in 0..15 \ {14, 15} :
          /\ Image[PC] = Inst(CPY, r)
          /\ PC = 24 => r = 8 /\ WR = 88
          /\ PC = 28 => r = 13 /\ WR = 4
          /\ PC = 36 => r = 3 /\ WR = 2
          /\ PC = 40 => r = 5
          /\ PC = 42 => r = 6 /\ WR = 0
    BY <1>1, <1>2, <1>8, ImageBytes DEF LockInv, ProgramRegisters
  <2>2. Moves({r}, {}) /\ Still /\ reg'[r] = WR /\ PC' = PC + 1
    BY <1>1, <2>1, CpyTurn
  <2>3. ProgramFrame
    <3>1. PC' \in (4..7) \cup (16..50) /\ (active' <=> PC' # 50) /\ UNCHANGED int_level
      BY <1>1, <1>8, <2>1, <2>2 DEF Still
    <3>2. \A a \in 4..87 : a \notin {}
      OBVIOUS
    <3> QED
      BY <1>1, <2>2, <3>1, <3>2, ProgramMoves
  <2>4. /\ SP' = SP /\ (PC = 24 => reg'[8] = WR) /\ (PC # 24 => reg'[8] = reg[8])
        /\ (PC = 28 => SR' = WR) /\ (PC # 28 => SR' = SR) /\ (PC = 36 => reg'[3] = WR)
        /\ (PC # 36 => reg'[3] = reg[3]) /\ (PC = 40 => reg'[5] = WR)
        /\ (PC # 40 => reg'[5] = reg[5]) /\ (PC = 42 => reg'[6] = WR)
        /\ (PC # 42 => reg'[6] = reg[6]) /\ WR' = WR /\ routine' = routine
        /\ ram'[0] = ram[0] /\ ram'[2] = ram[2] /\ ram'[88] = ram[88]
    BY <1>8, <2>1, <2>2 DEF Moves, Still, Ints, SR, SP, WR, PC_REG, SR_REG, SP_REG, WR_REG
  <2>5. StackKept'
    BY <1>8, <2>1, <2>2, <2>3, <2>4 DEF ProgramFrame, StackKept
  <2>6. ProgramRegisters'
    BY <1>8, <2>1, <2>2, <2>3, <2>4 DEF ProgramFrame, LockInv, ProgramRegisters, Byte
  <2>7. Locked'
    BY <1>8, <2>1, <2>2, <2>3, <2>4 DEF ProgramFrame, Locked, RoutineHolds, ProgramHolds,
       LockCell
  <2>8. Characters'
    BY <1>8, <2>1, <2>2, <2>3, <2>4 DEF ProgramFrame, LockInv, Characters, Bang, Moves,
       IO_COUT, IO_CMD, IO_NOP, IO_WRITE, IO_READ
  <2> QED
    BY <2>3, <2>5, <2>6, <2>7, <2>8 DEF ProgramFrame, LockInv
<1>9. CASE PC \in {17, 20, 23, 33, 39}
  <2>1. /\ Image[PC] = Inst(LOAD, 0) /\ WR \in 0..95
        /\ ram[WR] \in 0..255
        /\ PC = 17 => ram[WR] = 60
        /\ PC = 20 => ram[WR] = 90
        /\ PC = 23 => ram[WR] = 88
        /\ PC = 33 => ram[WR] = 49
    <3>1. /\ Image[PC] = Inst(LOAD, 0) /\ WR \in 0..95
          /\ PC = 17 => WR = 10
          /\ PC = 20 => WR = 9
          /\ PC = 23 => WR = 8
          /\ PC = 33 => WR = 11
      BY <1>1, <1>2, <1>9, ImageBytes DEF LockInv, ProgramRegisters
    <3>2. ram[10] = 60 /\ ram[9] = 90 /\ ram[8] = 88 /\ ram[11] = 49
      BY ImageBytes DEF LockInv, CodeKept
    <3> QED
      BY <1>3, <3>1, <3>2
  <2>2. Moves({0}, {}) /\ Still /\ WR' = ram[WR] /\ PC' = PC + 1
    BY <1>1, <2>1, LoadTurn, Machine
  <2>3. ProgramFrame
    <3>1. PC' \in (4..7) \cup (16..50) /\ (active' <=> PC' # 50) /\ UNCHANGED int_level
      BY <1>1, <1>9, <2>1, <2>2 DEF Still
    <3>2. \A a \in 4..87 : a \notin {}
      OBVIOUS
    <3> QED
      BY <1>1, <2>2, <3>1, <3>2, ProgramMoves
  <2>4. /\ WR' \in 0..255 /\ SR' = SR /\ SP' = SP /\ reg'[3] = reg[3]
        /\ reg'[5] = reg[5] /\ reg'[6] = reg[6] /\ reg'[8] = reg[8]
        /\ routine' = routine /\ ram'[0] = ram[0] /\ ram'[2] = ram[2]
        /\ ram'[88] = ram[88]
    BY <1>9, <2>1, <2>2 DEF Moves, Still, Ints, SR, SP, WR, PC_REG, SR_REG, SP_REG, WR_REG
  <2>5. StackKept'
    BY <1>9, <2>1, <2>2, <2>3, <2>4 DEF ProgramFrame, StackKept
  <2>6. ProgramRegisters'
    BY <1>9, <2>1, <2>2, <2>3, <2>4 DEF ProgramFrame, LockInv, ProgramRegisters, Byte
  <2>7. Locked'
    BY <1>9, <2>1, <2>2, <2>3, <2>4 DEF ProgramFrame, Locked, RoutineHolds, ProgramHolds,
       LockCell
  <2>8. Characters'
    BY <1>9, <2>1, <2>2, <2>3, <2>4 DEF ProgramFrame, LockInv, Characters, Bang, Moves,
       IO_COUT, IO_CMD, IO_NOP, IO_WRITE, IO_READ
  <2> QED
    BY <2>3, <2>5, <2>6, <2>7, <2>8 DEF ProgramFrame, LockInv
<1>10. CASE PC \in {26, 37, 44, 46, 48}
  <2>1. PICK r \in 0..15 :
          /\ Image[PC] = Inst(STR, r)
          /\ reg[r] \in {0, 2, 88}
          /\ PC \in {26, 48} => reg[r] = 88 /\ WR = 0
          /\ PC = 37 => reg[r] = 2 /\ WR = 2
          /\ PC = 44 => reg[r] = 0 /\ WR = reg[5]
          /\ PC = 46 => reg[r] = 2 /\ WR = 1
    BY <1>1, <1>2, <1>10, ImageBytes DEF LockInv, ProgramRegisters
  <2>2. Moves({}, {reg[r]}) /\ Still /\ ram'[reg[r]] = WR /\ PC' = PC + 1
    <3>1. Runs(Inst(STR, r)) /\ reg[r] \in Addresses
      BY <1>1, <2>1, Machine
    <3> QED
      BY <3>1, StrTurn
  <2>3. ProgramFrame
    <3>1. PC' \in (4..7) \cup (16..50) /\ (active' <=> PC' # 50) /\ UNCHANGED int_level
      BY <1>1, <1>10, <2>1, <2>2 DEF Still
    <3>2. \A a \in 4..87 : a \notin {reg[r]}
      BY <2>1
    <3> QED
      BY <1>1, <2>2, <3>1, <3>2, ProgramMoves
  <2>4. /\ WR' = WR /\ SR' = SR /\ SP' = SP /\ reg'[3] = reg[3] /\ reg'[5] = reg[5]
        /\ reg'[6] = reg[6] /\ reg'[8] = reg[8] /\ routine' = routine
        /\ (IF PC = 44 THEN ram'[0] = WR ELSE ram'[0] = ram[0])
        /\ (IF PC \in {37, 46} THEN ram'[2] = WR ELSE ram'[2] = ram[2])
        /\ (IF PC \in {26, 48} THEN ram'[88] = WR ELSE ram'[88] = ram[88])
    BY <1>10, <2>1, <2>2 DEF Moves, Still, Ints, SR, SP, WR, PC_REG, SR_REG, SP_REG, WR_REG
  <2>5. StackKept'
    BY <1>10, <2>1, <2>2, <2>3, <2>4 DEF ProgramFrame, StackKept
  <2>6. ProgramRegisters'
    BY <1>10, <2>1, <2>2, <2>3, <2>4 DEF ProgramFrame, LockInv, ProgramRegisters, Byte
  <2>7. Locked'
    BY <1>10, <2>1, <2>2, <2>3, <2>4 DEF ProgramFrame, Locked, RoutineHolds, ProgramHolds,
       LockCell
  <2>8. Characters'
    BY <1>10, <2>1, <2>2, <2>3, <2>4 DEF ProgramFrame, LockInv, Characters, Bang, Moves,
       IO_COUT, IO_CMD, IO_NOP, IO_WRITE, IO_READ
  <2> QED
    BY <2>3, <2>5, <2>6, <2>7, <2>8 DEF ProgramFrame, LockInv
<1>11. CASE PC \in {29, 43}
  <2>1. PICK r \in 0..15 :
          /\ Image[PC] = Inst(READ, r) /\ reg[r] \in 0..255
          /\ PC = 29 => reg[r] = 88
          /\ PC = 43 => reg[r] = reg[5]
    BY <1>1, <1>2, <1>11, ImageBytes DEF LockInv, ProgramRegisters, Byte
  <2>2. Moves({0}, {}) /\ Still /\ WR' = reg[r] /\ PC' = PC + 1
    BY <1>1, <2>1, ReadTurn
  <2>3. ProgramFrame
    <3>1. PC' \in (4..7) \cup (16..50) /\ (active' <=> PC' # 50) /\ UNCHANGED int_level
      BY <1>1, <1>11, <2>1, <2>2 DEF Still
    <3>2. \A a \in 4..87 : a \notin {}
      OBVIOUS
    <3> QED
      BY <1>1, <2>2, <3>1, <3>2, ProgramMoves
  <2>4. /\ SR' = SR /\ SP' = SP /\ reg'[3] = reg[3] /\ reg'[5] = reg[5]
        /\ reg'[6] = reg[6] /\ reg'[8] = reg[8] /\ routine' = routine
        /\ ram'[0] = ram[0] /\ ram'[2] = ram[2] /\ ram'[88] = ram[88]
    BY <1>11, <2>1, <2>2 DEF Moves, Still, Ints, SR, SP, WR, PC_REG, SR_REG, SP_REG, WR_REG
  <2>5. StackKept'
    BY <1>11, <2>1, <2>2, <2>3, <2>4 DEF ProgramFrame, StackKept
  <2>6. ProgramRegisters'
    BY <1>11, <2>1, <2>2, <2>3, <2>4 DEF ProgramFrame, LockInv, ProgramRegisters, Byte
  <2>7. Locked'
    BY <1>11, <2>1, <2>2, <2>3, <2>4 DEF ProgramFrame, Locked, RoutineHolds, ProgramHolds,
       LockCell
  <2>8. Characters'
    BY <1>11, <2>1, <2>2, <2>3, <2>4 DEF ProgramFrame, LockInv, Characters, Bang, Moves,
       IO_COUT, IO_CMD, IO_NOP, IO_WRITE, IO_READ
  <2> QED
    BY <2>3, <2>5, <2>6, <2>7, <2>8 DEF ProgramFrame, LockInv
<1>12. CASE PC \in {30}
  <2>1. /\ Image[PC] = ATOM
        /\ WR = 88
        /\ SR \in {4, 5}
    BY <1>1, <1>2, <1>12, ImageBytes DEF LockInv, ProgramRegisters
  <2>2. Moves({13}, {88}) /\ Still /\ PC' = 31 /\ ram'[88] = 1
        /\ (ram[88] = 0 => SR' = 5) /\ (ram[88] # 0 => SR' = 4)
    <3>1. Runs(ATOM) /\ WR \in Addresses
      BY <1>1, <2>1, Machine
    <3> QED
      BY <1>12, <2>1, <3>1, AtomTurn
  <2>3. ProgramFrame
    <3>1. PC' \in (4..7) \cup (16..50) /\ (active' <=> PC' # 50) /\ UNCHANGED int_level
      BY <1>1, <1>12, <2>1, <2>2 DEF Still
    <3>2. \A a \in 4..87 : a \notin {88}
      OBVIOUS
    <3> QED
      BY <1>1, <2>2, <3>1, <3>2, ProgramMoves
  <2>4. /\ WR' = WR /\ SP' = SP /\ reg'[3] = reg[3] /\ reg'[5] = reg[5]
        /\ reg'[6] = reg[6] /\ reg'[8] = reg[8] /\ routine' = routine
        /\ ram'[0] = ram[0] /\ ram'[2] = ram[2]
    BY <1>12, <2>1, <2>2 DEF Moves, Still, Ints, SR, SP, WR, PC_REG, SR_REG, SP_REG, WR_REG
  <2>5. StackKept'
    BY <1>12, <2>1, <2>2, <2>3, <2>4 DEF ProgramFrame, StackKept
  <2>6. ProgramRegisters'
    BY <1>12, <2>1, <2>2, <2>3, <2>4 DEF ProgramFrame, LockInv, ProgramRegisters, Byte
  <2>7. Locked'
    BY <1>12, <2>1, <2>2, <2>3, <2>4 DEF ProgramFrame, Locked, RoutineHolds, ProgramHolds,
       LockCell
  <2>8. Characters'
    BY <1>12, <2>1, <2>2, <2>3, <2>4 DEF ProgramFrame, LockInv, Characters, Bang, Moves,
       IO_COUT, IO_CMD, IO_NOP, IO_WRITE, IO_READ
  <2> QED
    BY <2>3, <2>5, <2>6, <2>7, <2>8 DEF ProgramFrame, LockInv
<1>13. CASE PC \in {31}
  <2>1. /\ Image[PC] = CMPNOT
        /\ SR \in {4, 5}
    BY <1>1, <1>2, <1>13, ImageBytes DEF LockInv, ProgramRegisters
  <2>2. Moves({13}, {}) /\ Still /\ PC' = 32
        /\ (SR = 5 => SR' = 4) /\ (SR = 4 => SR' = 5)
    <3>1. Runs(CMPNOT)
      BY <1>1, <2>1
    <3> QED
      BY <1>13, <2>1, <3>1, CmpnotTurn
  <2>3. ProgramFrame
    <3>1. PC' \in (4..7) \cup (16..50) /\ (active' <=> PC' # 50) /\ UNCHANGED int_level
      BY <1>1, <1>13, <2>1, <2>2 DEF Still
    <3>2. \A a \in 4..87 : a \notin {}
      OBVIOUS
    <3> QED
      BY <1>1, <2>2, <3>1, <3>2, ProgramMoves
  <2>4. /\ WR' = WR /\ SP' = SP /\ reg'[3] = reg[3] /\ reg'[5] = reg[5]
        /\ reg'[6] = reg[6] /\ reg'[8] = reg[8] /\ routine' = routine
        /\ ram'[0] = ram[0] /\ ram'[2] = ram[2] /\ ram'[88] = ram[88]
    BY <1>13, <2>1, <2>2 DEF Moves, Still, Ints, SR, SP, WR, PC_REG, SR_REG, SP_REG, WR_REG
  <2>5. StackKept'
    BY <1>13, <2>1, <2>2, <2>3, <2>4 DEF ProgramFrame, StackKept
  <2>6. ProgramRegisters'
    BY <1>13, <2>1, <2>2, <2>3, <2>4 DEF ProgramFrame, LockInv, ProgramRegisters, Byte
  <2>7. Locked'
    BY <1>13, <2>1, <2>2, <2>3, <2>4 DEF ProgramFrame, Locked, RoutineHolds, ProgramHolds,
       LockCell
  <2>8. Characters'
    BY <1>13, <2>1, <2>2, <2>3, <2>4 DEF ProgramFrame, LockInv, Characters, Bang, Moves,
       IO_COUT, IO_CMD, IO_NOP, IO_WRITE, IO_READ
  <2> QED
    BY <2>3, <2>5, <2>6, <2>7, <2>8 DEF ProgramFrame, LockInv
<1>14. CASE PC \in {34}
  <2>1. /\ Image[PC] = JIF
        /\ WR = 49
        /\ SR \in {4, 5}
    BY <1>1, <1>2, <1>14, ImageBytes DEF LockInv, ProgramRegisters
  <2>2. Moves({}, {}) /\ Still /\ (SR = 5 => PC' = 49)
        /\ (SR = 4 => PC' = 35)
    <3>1. Runs(JIF)
      BY <1>1, <2>1
    <3> QED
      BY <1>14, <2>1, <3>1, JifTurn
  <2>3. ProgramFrame
    <3>1. PC' \in (4..7) \cup (16..50) /\ (active' <=> PC' # 50) /\ UNCHANGED int_level
      BY <1>1, <1>14, <2>1, <2>2 DEF Still
    <3>2. \A a \in 4..87 : a \notin {}
      OBVIOUS
    <3> QED
      BY <1>1, <2>2, <3>1, <3>2, ProgramMoves
  <2>4. /\ WR' = WR /\ SR' = SR /\ SP' = SP /\ reg'[3] = reg[3] /\ reg'[5] = reg[5]
        /\ reg'[6] = reg[6] /\ reg'[8] = reg[8] /\ routine' = routine
        /\ ram'[0] = ram[0] /\ ram'[2] = ram[2] /\ ram'[88] = ram[88]
    BY <1>14, <2>1, <2>2 DEF Moves, Still, Ints, SR, SP, WR, PC_REG, SR_REG, SP_REG, WR_REG
  <2>5. StackKept'
    BY <1>14, <2>1, <2>2, <2>3, <2>4 DEF ProgramFrame, StackKept
  <2>6. ProgramRegisters'
    BY <1>14, <2>1, <2>2, <2>3, <2>4 DEF ProgramFrame, LockInv, ProgramRegisters, Byte
  <2>7. Locked'
    BY <1>14, <2>1, <2>2, <2>3, <2>4 DEF ProgramFrame, Locked, RoutineHolds, ProgramHolds,
       LockCell
  <2>8. Characters'
    BY <1>14, <2>1, <2>2, <2>3, <2>4 DEF ProgramFrame, LockInv, Characters, Bang, Moves,
       IO_COUT, IO_CMD, IO_NOP, IO_WRITE, IO_READ
  <2> QED
    BY <2>3, <2>5, <2>6, <2>7, <2>8 DEF ProgramFrame, LockInv
<1>15. CASE PC \in {18}
  <2>1. /\ Image[PC] = SETINT + 1
        /\ WR = 60
    BY <1>1, <1>2, <1>15, ImageBytes DEF LockInv, ProgramRegisters
  <2>2. Moves({}, {}) /\ UNCHANGED <<active, int_level>> /\ PC' = 19
        /\ routine' = [routine EXCEPT ![1] = 60]
    <3>1. Runs(SETINT + 1)
      BY <1>1, <2>1
    <3> QED
      BY <1>15, <2>1, <3>1, SetintTurn
  <2>3. ProgramFrame
    <3>1. PC' \in (4..7) \cup (16..50) /\ (active' <=> PC' # 50) /\ UNCHANGED int_level
      BY <1>1, <1>15, <2>1, <2>2 DEF Still
    <3>2. \A a \in 4..87 : a \notin {}
      OBVIOUS
    <3> QED
      BY <1>1, <2>2, <3>1, <3>2, ProgramMoves
  <2>4. /\ WR' = WR /\ SR' = SR /\ SP' = SP /\ reg'[3] = reg[3] /\ reg'[5] = reg[5]
        /\ reg'[6] = reg[6] /\ reg'[8] = reg[8] /\ routine'[1] = 60
        /\ ram'[0] = ram[0] /\ ram'[2] = ram[2] /\ ram'[88] = ram[88]
    BY <1>2, <1>15, <2>1, <2>2 DEF Moves, Still, Ints, SR, SP, WR, PC_REG, SR_REG, SP_REG,
       WR_REG
  <2>5. StackKept'
    BY <1>15, <2>1, <2>2, <2>3, <2>4 DEF ProgramFrame, StackKept
  <2>6. ProgramRegisters'
    BY <1>15, <2>1, <2>2, <2>3, <2>4 DEF ProgramFrame, LockInv, ProgramRegisters, Byte
  <2>7. Locked'
    BY <1>15, <2>1, <2>2, <2>3, <2>4 DEF ProgramFrame, Locked, RoutineHolds, ProgramHolds,
       LockCell
  <2>8. Characters'
    BY <1>15, <2>1, <2>2, <2>3, <2>4 DEF ProgramFrame, LockInv, Characters, Bang, Moves,
       IO_COUT, IO_CMD, IO_NOP, IO_WRITE, IO_READ
  <2> QED
    BY <2>3, <2>5, <2>6, <2>7, <2>8 DEF ProgramFrame, LockInv
<1>16. CASE PC \in {49}
  <2>1. /\ Image[PC] = QUIT
    BY <1>1, <1>2, <1>16, ImageBytes DEF LockInv, ProgramRegisters
  <2>2. Moves({}, {}) /\ UNCHANGED <<int_level, routine>> /\ PC' = 50 /\ active' = FALSE
    <3>1. Runs(QUIT)
      BY <1>1, <2>1
    <3> QED
      BY <1>16, <3>1, QuitTurn
  <2>3. ProgramFrame
    <3>1. PC' \in (4..7) \cup (16..50) /\ (active' <=> PC' # 50) /\ UNCHANGED int_level
      BY <1>1, <1>16, <2>1, <2>2 DEF Still
    <3>2. \A a \in 4..87 : a \notin {}
      OBVIOUS
    <3> QED
      BY <1>1, <2>2, <3>1, <3>2, ProgramMoves
  <2>4. /\ WR' = WR /\ SR' = SR /\ SP' = SP /\ reg'[3] = reg[3] /\ reg'[5] = reg[5]
        /\ reg'[6] = reg[6] /\ reg'[8] = reg[8] /\ routine' = routine
        /\ ram'[0] = ram[0] /\ ram'[2] = ram[2] /\ ram'[88] = ram[88]
    BY <1>16, <2>1, <2>2 DEF Moves, Still, Ints, SR, SP, WR, PC_REG, SR_REG, SP_REG, WR_REG
  <2>5. StackKept'
    BY <1>16, <2>1, <2>2, <2>3, <2>4 DEF ProgramFrame, StackKept
  <2>6. ProgramRegisters'
    BY <1>16, <2>1, <2>2, <2>3, <2>4 DEF ProgramFrame, LockInv, ProgramRegisters, Byte
  <2>7. Locked'
    BY <1>16, <2>1, <2>2, <2>3, <2>4 DEF ProgramFrame, Locked, RoutineHolds, ProgramHolds,
       LockCell
  <2>8. Characters'
    BY <1>16, <2>1, <2>2, <2>3, <2>4 DEF ProgramFrame, LockInv, Characters, Bang, Moves,
       IO_COUT, IO_CMD, IO_NOP, IO_WRITE, IO_READ
  <2> QED
    BY <2>3, <2>5, <2>6, <2>7, <2>8 DEF ProgramFrame, LockInv
<1> QED
  BY <1>1, <1>4, <1>5, <1>6, <1>7, <1>8, <1>9, <1>10, <1>11, <1>12, <1>13, <1>14, <1>15, <1>16

-----------------------------------------------------------------------------
(* What a turn of the routine never disturbs. *)
RoutineFrame ==
    /\ Places' /\ CodeKept' /\ ProgramRegisters'
    /\ InRoutine' /\ ProgramPC' = ProgramPC /\ ProgramPC \in 29..49
    /\ ProgramHolds' <=> ProgramHolds
    /\ ~(ProgramHolds /\ RoutineHolds)
    /\ ProgramHolds \/ RoutineHolds => ram[88] = 1
    /\ ProgramPC \in 35..48 => ProgramHolds
    /\ ram[2] = 0
    /\ SR \in {4, 5}

LEMMA RoutineMoves ==
    ASSUME LockInv, phase = "run_inst", InRoutine, active,
           NEW STATE rs, NEW STATE as, Moves(rs, as), rs \subseteq {0, 2, 13, 15},
           \A a \in 4..87 : a \notin as, Still,
           PC \in 60..81, PC' \in 60..81, WR' \in Byte,
           ProgramWR' = ProgramWR, ProgramSR' = ProgramSR
    PROVE  RoutineFrame
<1>1. /\ int_level' = int_level /\ phase' = "io" /\ active' = active
      /\ byte_mode' = byte_mode /\ routine' = routine
  BY DEF Moves, Still
<1>2. /\ InRoutine' /\ ProgramPC' = ProgramPC /\ LEVEL_NORMAL = 4
  BY <1>1 DEF InRoutine, ProgramPC, LEVEL_NORMAL
<1>3. Places' /\ ProgramPC \in 29..49
  BY <1>1, <1>2 DEF LockInv, Places
<1>4. CodeKept'
  <2>1. \A a \in 4..87 : a \in 0..95 /\ ram[a] = Image[a]
    BY DEF LockInv, CodeKept
  <2> QED
    BY <2>1 DEF CodeKept, Moves
<1>5. ProgramRegisters'
  <2>1. reg'[3] = reg[3] /\ reg'[5] = reg[5] /\ reg'[6] = reg[6] /\ reg'[8] = reg[8]
    BY DEF Moves, PC_REG
  <2> QED
    BY <1>1, <1>2, <2>1 DEF LockInv, ProgramRegisters
<1>6. ProgramHolds' <=> ProgramHolds
  BY <1>2 DEF ProgramHolds
<1>7. /\ ~(ProgramHolds /\ RoutineHolds)
      /\ ProgramHolds \/ RoutineHolds => ram[88] = 1
      /\ ProgramPC \in 35..48 => ProgramHolds
      /\ ram[2] = 0 /\ SR \in {4, 5}
  BY DEF LockInv, Locked, Characters, RoutineRegisters, ProgramHolds, LockCell, IO_CMD, IO_NOP
<1> QED
  BY <1>2, <1>3, <1>4, <1>5, <1>6, <1>7 DEF RoutineFrame

LEMMA RoutineStep ==
    ASSUME TypeInv, LockInv, phase = "run_inst", RunInst, InRoutine
    PROVE  LockInv'
<1>1. Runs(Image[PC]) /\ active /\ PC \in 60..81 /\ ProgramPC \in 29..49
  BY Running
<1>2. /\ WR \in 0..255 /\ SR \in {4, 5}
      /\ reg[6] = 0 /\ reg[8] = 88 /\ ram[12] = 78 /\ ram[13] = Bang
      /\ PC = 75 => reg[2] = 2
  BY <1>1, ImageBytes DEF LockInv, ProgramRegisters, RoutineRegisters, CodeKept, Byte
<1>3. SP = IF PC \in {60, 81} THEN 90 ELSE IF PC \in {61, 62, 79, 80} THEN 91 ELSE 92
  BY <1>1 DEF LockInv, StackKept
<1>4. /\ PC = 64 => WR = 88
      /\ PC = 67 => WR = 12
      /\ PC = 68 => WR = 78
      /\ PC = 70 => WR = 13
      /\ PC = 71 => WR = Bang
      /\ PC = 73 => WR = 2
      /\ PC = 75 => WR = 1
      /\ PC = 77 => WR = 0
      /\ PC = 61 => ram[90] = WR
      /\ PC = 62 => WR = SR
      /\ PC \in {63, 64} => ram[91] = SR
      /\ PC = 79 => WR = ram[91]
  BY DEF LockInv, StackKept, RoutineRegisters
<1>5. ram[90] \in 0..255 /\ ram[91] \in 0..255
  <2>1. ram \in [0..95 -> 0..255]
    BY Running
  <2> QED
    BY <2>1
<1>6. CASE PC \in {60}
  <2>1. /\ Image[PC] = PUSH
        /\ SP = 90
    BY <1>1, <1>2, <1>3, <1>4, <1>6, ImageBytes
  <2>2. Moves({15}, {90}) /\ Still /\ SP' = 91 /\ ram'[90] = WR /\ PC' = 61
    <3>1. Runs(PUSH) /\ SP \in 0..94
      BY <1>1, <2>1, Machine
    <3> QED
      BY <1>6, <2>1, <3>1, PushTurn
  <2>3. /\ WR' = WR /\ SR' = SR /\ reg'[2] = reg[2] /\ ram'[0] = ram[0]
        /\ ram'[2] = ram[2] /\ ram'[88] = ram[88] /\ ram'[91] = ram[91]
    BY <1>6, <2>1, <2>2 DEF Moves, SR, SP, WR, PC_REG, SR_REG, SP_REG, WR_REG
  <2>4. ProgramWR' = ProgramWR /\ ProgramSR' = ProgramSR
    <3>1. InRoutine'
      BY <2>2 DEF Still, InRoutine
    <3> QED
      BY <1>2, <1>4, <1>6, <2>1, <2>2, <2>3, <3>1 DEF ProgramWR, ProgramSR
  <2>5. RoutineFrame
    <3>1. {15} \subseteq {0, 2, 13, 15} /\ (\A a \in 4..87 : a \notin {90})
      BY <1>6, <2>1
    <3>2. PC' \in 60..81 /\ WR' \in Byte
      BY <1>2, <1>6, <2>1, <2>2, <2>3 DEF Byte
    <3> QED
      BY <1>1, <2>2, <2>4, <3>1, <3>2, RoutineMoves
  <2>6. StackKept'
    BY <1>2, <1>3, <1>4, <1>6, <2>1, <2>2, <2>3, <2>5 DEF RoutineFrame, StackKept
  <2>7. RoutineRegisters'
    BY <1>2, <1>4, <1>6, <2>1, <2>2, <2>3, <2>5 DEF RoutineFrame, LockInv, RoutineRegisters
  <2>8. Locked'
    BY <1>2, <1>4, <1>6, <2>1, <2>2, <2>3, <2>5 DEF RoutineFrame, Locked, RoutineHolds,
       LockCell
  <2>9. Characters'
    <3>1. reg'[5] = reg[5] /\ phase' = "io"
      BY <2>1, <2>2 DEF Moves, PC_REG
    <3> QED
      BY <1>2, <1>4, <1>6, <2>1, <2>2, <2>3, <2>5, <3>1 DEF RoutineFrame, LockInv, Characters,
         RoutineHolds, IO_COUT, IO_CMD, IO_NOP, IO_WRITE, IO_READ
  <2> QED
    BY <2>5, <2>6, <2>7, <2>8, <2>9 DEF RoutineFrame, LockInv
<1>7. CASE PC \in {62}
  <2>1. /\ Image[PC] = PUSH
        /\ SP = 91
    BY <1>1, <1>2, <1>3, <1>4, <1>7, ImageBytes
  <2>2. Moves({15}, {91}) /\ Still /\ SP' = 92 /\ ram'[91] = WR /\ PC' = 63
    <3>1. Runs(PUSH) /\ SP \in 0..94
      BY <1>1, <2>1, Machine
    <3> QED
      BY <1>7, <2>1, <3>1, PushTurn
  <2>3. /\ WR' = WR /\ SR' = SR /\ reg'[2] = reg[2] /\ ram'[0] = ram[0]
        /\ ram'[2] = ram[2] /\ ram'[88] = ram[88] /\ ram'[90] = ram[90]
    BY <1>7, <2>1, <2>2 DEF Moves, SR, SP, WR, PC_REG, SR_REG, SP_REG, WR_REG
  <2>4. ProgramWR' = ProgramWR /\ ProgramSR' = ProgramSR
    <3>1. InRoutine'
      BY <2>2 DEF Still, InRoutine
    <3> QED
      BY <1>2, <1>4, <1>7, <2>1, <2>2, <2>3, <3>1 DEF ProgramWR, ProgramSR
  <2>5. RoutineFrame
    <3>1. {15} \subseteq {0, 2, 13, 15} /\ (\A a \in 4..87 : a \notin {91})
      BY <1>7, <2>1
    <3>2. PC' \in 60..81 /\ WR' \in Byte
      BY <1>2, <1>7, <2>1, <2>2, <2>3 DEF Byte
    <3> QED
      BY <1>1, <2>2, <2>4, <3>1, <3>2, RoutineMoves
  <2>6. StackKept'
    BY <1>2, <1>3, <1>4, <1>7, <2>1, <2>2, <2>3, <2>5 DEF RoutineFrame, StackKept
  <2>7. RoutineRegisters'
    BY <1>2, <1>4, <1>7, <2>1, <2>2, <2>3, <2>5 DEF RoutineFrame, LockInv, RoutineRegisters
  <2>8. Locked'
    BY <1>2, <1>4, <1>7, <2>1, <2>2, <2>3, <2>5 DEF RoutineFrame, Locked, RoutineHolds,
       LockCell
  <2>9. Characters'
    <3>1. reg'[5] = reg[5] /\ phase' = "io"
      BY <2>1, <2>2 DEF Moves, PC_REG
    <3> QED
      BY <1>2, <1>4, <1>7, <2>1, <2>2, <2>3, <2>5, <3>1 DEF RoutineFrame, LockInv, Characters,
         RoutineHolds, IO_COUT, IO_CMD, IO_NOP, IO_WRITE, IO_READ
  <2> QED
    BY <2>5, <2>6, <2>7, <2>8, <2>9 DEF RoutineFrame, LockInv
<1>8. CASE PC \in {61, 63}
  <2>1. PICK r \in 0..15 :
          /\ Image[PC] = Inst(READ, r)
          /\ PC = 61 => reg[r] = SR
          /\ PC = 63 => reg[r] = 88
    BY <1>1, <1>2, <1>4, <1>8, ImageBytes DEF SR, SR_REG
  <2>2. Moves({0}, {}) /\ Still /\ WR' = reg[r] /\ PC' = PC + 1
    <3>1. Runs(Inst(READ, r))
      BY <1>1, <2>1, Machine
    <3> QED
      BY <1>8, <2>1, <3>1, ReadTurn
  <2>3. /\ (PC = 61 => WR' = SR) /\ (PC = 63 => WR' = 88) /\ SR' = SR /\ SP' = SP
        /\ reg'[2] = reg[2] /\ ram'[0] = ram[0] /\ ram'[2] = ram[2]
        /\ ram'[88] = ram[88] /\ ram'[90] = ram[90] /\ ram'[91] = ram[91]
    BY <1>8, <2>1, <2>2 DEF Moves, SR, SP, WR, PC_REG, SR_REG, SP_REG, WR_REG
  <2>4. ProgramWR' = ProgramWR /\ ProgramSR' = ProgramSR
    <3>1. InRoutine'
      BY <2>2 DEF Still, InRoutine
    <3> QED
      BY <1>2, <1>4, <1>8, <2>1, <2>2, <2>3, <3>1 DEF ProgramWR, ProgramSR
  <2>5. RoutineFrame
    <3>1. {0} \subseteq {0, 2, 13, 15} /\ (\A a \in 4..87 : a \notin {})
      BY <1>8, <2>1
    <3>2. PC' \in 60..81 /\ WR' \in Byte
      BY <1>2, <1>8, <2>1, <2>2, <2>3 DEF Byte
    <3> QED
      BY <1>1, <2>2, <2>4, <3>1, <3>2, RoutineMoves
  <2>6. StackKept'
    BY <1>2, <1>3, <1>4, <1>8, <2>1, <2>2, <2>3, <2>5 DEF RoutineFrame, StackKept
  <2>7. RoutineRegisters'
    BY <1>2, <1>4, <1>8, <2>1, <2>2, <2>3, <2>5 DEF RoutineFrame, LockInv, RoutineRegisters
  <2>8. Locked'
    BY <1>2, <1>4, <1>8, <2>1, <2>2, <2>3, <2>5 DEF RoutineFrame, Locked, RoutineHolds,
       LockCell
  <2>9. Characters'
    <3>1. reg'[5] = reg[5] /\ phase' = "io"
      BY <2>1, <2>2 DEF Moves, PC_REG
    <3> QED
      BY <1>2, <1>4, <1>8, <2>1, <2>2, <2>3, <2>5, <3>1 DEF RoutineFrame, LockInv, Characters,
         RoutineHolds, IO_COUT, IO_CMD, IO_NOP, IO_WRITE, IO_READ
  <2> QED
    BY <2>5, <2>6, <2>7, <2>8, <2>9 DEF RoutineFrame, LockInv
<1>9. CASE PC \in {64}
  <2>1. /\ Image[PC] = ATOM
        /\ WR = 88
    BY <1>1, <1>2, <1>3, <1>4, <1>9, ImageBytes
  <2>2. Moves({13}, {88}) /\ Still /\ PC' = 65 /\ ram'[88] = 1
        /\ (ram[88] = 0 => SR' = 5) /\ (ram[88] # 0 => SR' = 4)
    <3>1. Runs(ATOM) /\ WR \in Addresses
      BY <1>1, <2>1, Machine
    <3> QED
      BY <1>9, <1>2, <2>1, <3>1, AtomTurn
  <2>3. /\ WR' = WR /\ SP' = SP /\ reg'[2] = reg[2] /\ ram'[0] = ram[0]
        /\ ram'[2] = ram[2] /\ ram'[90] = ram[90] /\ ram'[91] = ram[91]
    BY <1>9, <2>1, <2>2 DEF Moves, SR, SP, WR, PC_REG, SR_REG, SP_REG, WR_REG
  <2>4. ProgramWR' = ProgramWR /\ ProgramSR' = ProgramSR
    <3>1. InRoutine'
      BY <2>2 DEF Still, InRoutine
    <3> QED
      BY <1>2, <1>4, <1>9, <2>1, <2>2, <2>3, <3>1 DEF ProgramWR, ProgramSR
  <2>5. RoutineFrame
    <3>1. {13} \subseteq {0, 2, 13, 15} /\ (\A a \in 4..87 : a \notin {88})
      BY <1>9, <2>1
    <3>2. PC' \in 60..81 /\ WR' \in Byte
      BY <1>2, <1>9, <2>1, <2>2, <2>3 DEF Byte
    <3> QED
      BY <1>1, <2>2, <2>4, <3>1, <3>2, RoutineMoves
  <2>6. StackKept'
    BY <1>2, <1>3, <1>4, <1>9, <2>1, <2>2, <2>3, <2>5 DEF RoutineFrame, StackKept
  <2>7. RoutineRegisters'
    BY <1>2, <1>4, <1>9, <2>1, <2>2, <2>3, <2>5 DEF RoutineFrame, LockInv, RoutineRegisters
  <2>8. Locked'
    BY <1>2, <1>4, <1>9, <2>1, <2>2, <2>3, <2>5 DEF RoutineFrame, Locked, RoutineHolds,
       LockCell
  <2>9. Characters'
    <3>1. reg'[5] = reg[5] /\ phase' = "io"
      BY <2>1, <2>2 DEF Moves, PC_REG
    <3> QED
      BY <1>2, <1>4, <1>9, <2>1, <2>2, <2>3, <2>5, <3>1 DEF RoutineFrame, LockInv, Characters,
         RoutineHolds, IO_COUT, IO_CMD, IO_NOP, IO_WRITE, IO_READ
  <2> QED
    BY <2>5, <2>6, <2>7, <2>8, <2>9 DEF RoutineFrame, LockInv
<1>10. CASE PC \in {65}
  <2>1. /\ Image[PC] = CMPNOT
    BY <1>1, <1>2, <1>3, <1>4, <1>10, ImageBytes
  <2>2. Moves({13}, {}) /\ Still /\ PC' = 66
        /\ (SR = 5 => SR' = 4) /\ (SR = 4 => SR' = 5)
    <3>1. Runs(CMPNOT)
      BY <1>1, <2>1, Machine
    <3> QED
      BY <1>10, <1>2, <3>1, CmpnotTurn
  <2>3. /\ WR' = WR /\ SP' = SP /\ reg'[2] = reg[2] /\ ram'[0] = ram[0]
        /\ ram'[2] = ram[2] /\ ram'[88] = ram[88] /\ ram'[90] = ram[90]
        /\ ram'[91] = ram[91]
    BY <1>10, <2>1, <2>2 DEF Moves, SR, SP, WR, PC_REG, SR_REG, SP_REG, WR_REG
  <2>4. ProgramWR' = ProgramWR /\ ProgramSR' = ProgramSR
    <3>1. InRoutine'
      BY <2>2 DEF Still, InRoutine
    <3> QED
      BY <1>2, <1>4, <1>10, <2>1, <2>2, <2>3, <3>1 DEF ProgramWR, ProgramSR
  <2>5. RoutineFrame
    <3>1. {13} \subseteq {0, 2, 13, 15} /\ (\A a \in 4..87 : a \notin {})
      BY <1>10, <2>1
    <3>2. PC' \in 60..81 /\ WR' \in Byte
      BY <1>2, <1>10, <2>1, <2>2, <2>3 DEF Byte
    <3> QED
      BY <1>1, <2>2, <2>4, <3>1, <3>2, RoutineMoves
  <2>6. StackKept'
    BY <1>2, <1>3, <1>4, <1>10, <2>1, <2>2, <2>3, <2>5 DEF RoutineFrame, StackKept
  <2>7. RoutineRegisters'
    BY <1>2, <1>4, <1>10, <2>1, <2>2, <2>3, <2>5 DEF RoutineFrame, LockInv, RoutineRegisters
  <2>8. Locked'
    BY <1>2, <1>4, <1>10, <2>1, <2>2, <2>3, <2>5 DEF RoutineFrame, Locked, RoutineHolds,
       LockCell
  <2>9. Characters'
    <3>1. reg'[5] = reg[5] /\ phase' = "io"
      BY <2>1, <2>2 DEF Moves, PC_REG
    <3> QED
      BY <1>2, <1>4, <1>10, <2>1, <2>2, <2>3, <2>5, <3>1 DEF RoutineFrame, LockInv,
         Characters,
         RoutineHolds, IO_COUT, IO_CMD, IO_NOP, IO_WRITE, IO_READ
  <2> QED
    BY <2>5, <2>6, <2>7, <2>8, <2>9 DEF RoutineFrame, LockInv
<1>11. CASE PC \in {66, 69, 72, 74, 76}
  <2>1. PICK c \in 0..15 :
          /\ Image[PC] = Inst(SET, c)
          /\ PC = 66 => c = 12
          /\ PC = 69 => c = 13
          /\ PC = 72 => c = 2
          /\ PC = 74 => c = 1
          /\ PC = 76 => c = 0
    BY <1>1, <1>2, <1>4, <1>11, ImageBytes
  <2>2. Moves({0}, {}) /\ Still /\ WR' = c /\ PC' = PC + 1
    <3>1. Runs(Inst(SET, c))
      BY <1>1, <2>1, Machine
    <3> QED
      BY <1>11, <2>1, <3>1, SetTurn
  <2>3. /\ SR' = SR /\ SP' = SP /\ reg'[2] = reg[2] /\ ram'[0] = ram[0]
        /\ ram'[2] = ram[2] /\ ram'[88] = ram[88] /\ ram'[90] = ram[90]
        /\ ram'[91] = ram[91]
    BY <1>11, <2>1, <2>2 DEF Moves, SR, SP, WR, PC_REG, SR_REG, SP_REG, WR_REG
  <2>4. ProgramWR' = ProgramWR /\ ProgramSR' = ProgramSR
    <3>1. InRoutine'
      BY <2>2 DEF Still, InRoutine
    <3> QED
      BY <1>2, <1>4, <1>11, <2>1, <2>2, <2>3, <3>1 DEF ProgramWR, ProgramSR
  <2>5. RoutineFrame
    <3>1. {0} \subseteq {0, 2, 13, 15} /\ (\A a \in 4..87 : a \notin {})
      BY <1>11, <2>1
    <3>2. PC' \in 60..81 /\ WR' \in Byte
      BY <1>2, <1>11, <2>1, <2>2, <2>3 DEF Byte
    <3> QED
      BY <1>1, <2>2, <2>4, <3>1, <3>2, RoutineMoves
  <2>6. StackKept'
    BY <1>2, <1>3, <1>4, <1>11, <2>1, <2>2, <2>3, <2>5 DEF RoutineFrame, StackKept
  <2>7. RoutineRegisters'
    BY <1>2, <1>4, <1>11, <2>1, <2>2, <2>3, <2>5 DEF RoutineFrame, LockInv, RoutineRegisters
  <2>8. Locked'
    BY <1>2, <1>4, <1>11, <2>1, <2>2, <2>3, <2>5 DEF RoutineFrame, Locked, RoutineHolds,
       LockCell
  <2>9. Characters'
    <3>1. reg'[5] = reg[5] /\ phase' = "io"
      BY <2>1, <2>2 DEF Moves, PC_REG
    <3> QED
      BY <1>2, <1>4, <1>11, <2>1, <2>2, <2>3, <2>5, <3>1 DEF RoutineFrame, LockInv,
         Characters,
         RoutineHolds, IO_COUT, IO_CMD, IO_NOP, IO_WRITE, IO_READ
  <2> QED
    BY <2>5, <2>6, <2>7, <2>8, <2>9 DEF RoutineFrame, LockInv
<1>12. CASE PC \in {67, 70}
  <2>1. /\ Image[PC] = Inst(LOAD, 0) /\ WR \in 0..95
        /\ PC = 67 => ram[WR] = 78
        /\ PC = 70 => ram[WR] = Bang
    <3>1. Image[PC] = Inst(LOAD, 0)
      BY <1>12, ImageBytes
    <3>2. WR = IF PC = 67 THEN 12 ELSE 13
      BY <1>4, <1>12
    <3> QED
      BY <1>2, <1>12, <3>1, <3>2
  <2>2. Moves({0}, {}) /\ Still /\ WR' = ram[WR] /\ PC' = PC + 1
    <3>1. Runs(Inst(LOAD, 0)) /\ WR \in Addresses
      BY <1>1, <2>1, Machine
    <3> QED
      BY <1>12, <2>1, <3>1, LoadTurn
  <2>3. /\ WR' \in 0..255 /\ SR' = SR /\ SP' = SP /\ reg'[2] = reg[2]
        /\ ram'[0] = ram[0] /\ ram'[2] = ram[2] /\ ram'[88] = ram[88]
        /\ ram'[90] = ram[90] /\ ram'[91] = ram[91]
    BY <1>12, <2>1, <2>2 DEF Moves, Bang, SR, SP, WR, PC_REG, SR_REG, SP_REG, WR_REG
  <2>4. ProgramWR' = ProgramWR /\ ProgramSR' = ProgramSR
    <3>1. InRoutine'
      BY <2>2 DEF Still, InRoutine
    <3> QED
      BY <1>2, <1>4, <1>12, <2>1, <2>2, <2>3, <3>1 DEF ProgramWR, ProgramSR
  <2>5. RoutineFrame
    <3>1. {0} \subseteq {0, 2, 13, 15} /\ (\A a \in 4..87 : a \notin {})
      BY <1>12, <2>1
    <3>2. PC' \in 60..81 /\ WR' \in Byte
      BY <1>2, <1>12, <2>1, <2>2, <2>3 DEF Byte
    <3> QED
      BY <1>1, <2>2, <2>4, <3>1, <3>2, RoutineMoves
  <2>6. StackKept'
    BY <1>2, <1>3, <1>4, <1>12, <2>1, <2>2, <2>3, <2>5 DEF RoutineFrame, StackKept
  <2>7. RoutineRegisters'
    BY <1>2, <1>4, <1>12, <2>1, <2>2, <2>3, <2>5 DEF RoutineFrame, LockInv, RoutineRegisters
  <2>8. Locked'
    BY <1>2, <1>4, <1>12, <2>1, <2>2, <2>3, <2>5 DEF RoutineFrame, Locked, RoutineHolds,
       LockCell
  <2>9. Characters'
    <3>1. reg'[5] = reg[5] /\ phase' = "io"
      BY <2>1, <2>2 DEF Moves, PC_REG
    <3> QED
      BY <1>2, <1>4, <1>12, <2>1, <2>2, <2>3, <2>5, <3>1 DEF RoutineFrame, LockInv,
         Characters,
         RoutineHolds, IO_COUT, IO_CMD, IO_NOP, IO_WRITE, IO_READ
  <2> QED
    BY <2>5, <2>6, <2>7, <2>8, <2>9 DEF RoutineFrame, LockInv
<1>13. CASE PC \in {68}
  <2>1. /\ Image[PC] = JIF
        /\ WR = 78
    BY <1>1, <1>2, <1>3, <1>4, <1>13, ImageBytes
  <2>2. Moves({}, {}) /\ Still /\ (SR = 5 => PC' = 78) /\ (SR = 4 => PC' = 69)
    <3>1. Runs(JIF)
      BY <1>1, <2>1, Machine
    <3> QED
      BY <1>13, <1>2, <2>1, <3>1, JifTurn
  <2>3. /\ WR' = WR /\ SR' = SR /\ SP' = SP /\ reg'[2] = reg[2] /\ ram'[0] = ram[0]
        /\ ram'[2] = ram[2] /\ ram'[88] = ram[88] /\ ram'[90] = ram[90]
        /\ ram'[91] = ram[91]
    BY <1>13, <2>1, <2>2 DEF Moves, SR, SP, WR, PC_REG, SR_REG, SP_REG, WR_REG
  <2>4. ProgramWR' = ProgramWR /\ ProgramSR' = ProgramSR
    <3>1. InRoutine'
      BY <2>2 DEF Still, InRoutine
    <3> QED
      BY <1>2, <1>4, <1>13, <2>1, <2>2, <2>3, <3>1 DEF ProgramWR, ProgramSR
  <2>5. RoutineFrame
    <3>1. {} \subseteq {0, 2, 13, 15} /\ (\A a \in 4..87 : a \notin {})
      BY <1>13, <2>1
    <3>2. PC' \in 60..81 /\ WR' \in Byte
      BY <1>2, <1>13, <2>1, <2>2, <2>3 DEF Byte
    <3> QED
      BY <1>1, <2>2, <2>4, <3>1, <3>2, RoutineMoves
  <2>6. StackKept'
    BY <1>2, <1>3, <1>4, <1>13, <2>1, <2>2, <2>3, <2>5 DEF RoutineFrame, StackKept
  <2>7. RoutineRegisters'
    BY <1>2, <1>4, <1>13, <2>1, <2>2, <2>3, <2>5 DEF RoutineFrame, LockInv, RoutineRegisters
  <2>8. Locked'
    BY <1>2, <1>4, <1>13, <2>1, <2>2, <2>3, <2>5 DEF RoutineFrame, Locked, RoutineHolds,
       LockCell
  <2>9. Characters'
    <3>1. reg'[5] = reg[5] /\ phase' = "io"
      BY <2>1, <2>2 DEF Moves, PC_REG
    <3> QED
      BY <1>2, <1>4, <1>13, <2>1, <2>2, <2>3, <2>5, <3>1 DEF RoutineFrame, LockInv,
         Characters,
         RoutineHolds, IO_COUT, IO_CMD, IO_NOP, IO_WRITE, IO_READ
  <2> QED
    BY <2>5, <2>6, <2>7, <2>8, <2>9 DEF RoutineFrame, LockInv
<1>14. CASE PC \in {71, 75, 77}
  <2>1. PICK r \in 0..15 :
          /\ Image[PC] = Inst(STR, r)
          /\ reg[r] \in {0, 2, 88}
          /\ PC = 71 => reg[r] = 0 /\ WR = Bang
          /\ PC = 75 => reg[r] = 2 /\ WR = 1
          /\ PC = 77 => reg[r] = 88 /\ WR = 0
    BY <1>1, <1>2, <1>4, <1>14, ImageBytes
  <2>2. Moves({}, {reg[r]}) /\ Still /\ ram'[reg[r]] = WR /\ PC' = PC + 1
    <3>1. Runs(Inst(STR, r)) /\ reg[r] \in Addresses
      BY <1>1, <2>1, Machine
    <3> QED
      BY <1>14, <2>1, <3>1, StrTurn
  <2>3. /\ WR' = WR /\ SR' = SR /\ SP' = SP /\ reg'[2] = reg[2]
        /\ (IF PC = 71 THEN ram'[0] = WR ELSE ram'[0] = ram[0])
        /\ (IF PC = 75 THEN ram'[2] = WR ELSE ram'[2] = ram[2])
        /\ (IF PC = 77 THEN ram'[88] = WR ELSE ram'[88] = ram[88])
        /\ ram'[90] = ram[90] /\ ram'[91] = ram[91]
    BY <1>14, <2>1, <2>2 DEF Moves, SR, SP, WR, PC_REG, SR_REG, SP_REG, WR_REG
  <2>4. ProgramWR' = ProgramWR /\ ProgramSR' = ProgramSR
    <3>1. InRoutine'
      BY <2>2 DEF Still, InRoutine
    <3> QED
      BY <1>2, <1>4, <1>14, <2>1, <2>2, <2>3, <3>1 DEF ProgramWR, ProgramSR
  <2>5. RoutineFrame
    <3>1. {} \subseteq {0, 2, 13, 15} /\ (\A a \in 4..87 : a \notin {reg[r]})
      BY <1>14, <2>1
    <3>2. PC' \in 60..81 /\ WR' \in Byte
      BY <1>2, <1>14, <2>1, <2>2, <2>3 DEF Byte
    <3> QED
      BY <1>1, <2>2, <2>4, <3>1, <3>2, RoutineMoves
  <2>6. StackKept'
    BY <1>2, <1>3, <1>4, <1>14, <2>1, <2>2, <2>3, <2>5 DEF RoutineFrame, StackKept
  <2>7. RoutineRegisters'
    BY <1>2, <1>4, <1>14, <2>1, <2>2, <2>3, <2>5 DEF RoutineFrame, LockInv, RoutineRegisters
  <2>8. Locked'
    BY <1>2, <1>4, <1>14, <2>1, <2>2, <2>3, <2>5 DEF RoutineFrame, Locked, RoutineHolds,
       LockCell
  <2>9. Characters'
    <3>1. reg'[5] = reg[5] /\ phase' = "io"
      BY <2>1, <2>2 DEF Moves, PC_REG
    <3> QED
      BY <1>2, <1>4, <1>14, <2>1, <2>2, <2>3, <2>5, <3>1 DEF RoutineFrame, LockInv,
         Characters,
         RoutineHolds, IO_COUT, IO_CMD, IO_NOP, IO_WRITE, IO_READ
  <2> QED
    BY <2>5, <2>6, <2>7, <2>8, <2>9 DEF RoutineFrame, LockInv
<1>15. CASE PC \in {73}
  <2>1. /\ Image[PC] = Inst(CPY, 2)
        /\ WR = 2
    BY <1>1, <1>2, <1>3, <1>4, <1>15, ImageBytes
  <2>2. Moves({2}, {}) /\ Still /\ reg'[2] = WR /\ PC' = 74
    <3>1. Runs(Inst(CPY, 2))
      BY <1>1, <2>1, Machine
    <3> QED
      BY <1>15, <2>1, <3>1, CpyTurn
  <2>3. /\ reg'[2] = 2 /\ WR' = WR /\ SR' = SR /\ SP' = SP /\ ram'[0] = ram[0]
        /\ ram'[2] = ram[2] /\ ram'[88] = ram[88] /\ ram'[90] = ram[90]
        /\ ram'[91] = ram[91]
    BY <1>15, <2>1, <2>2 DEF Moves, SR, SP, WR, PC_REG, SR_REG, SP_REG, WR_REG
  <2>4. ProgramWR' = ProgramWR /\ ProgramSR' = ProgramSR
    <3>1. InRoutine'
      BY <2>2 DEF Still, InRoutine
    <3> QED
      BY <1>2, <1>4, <1>15, <2>1, <2>2, <2>3, <3>1 DEF ProgramWR, ProgramSR
  <2>5. RoutineFrame
    <3>1. {2} \subseteq {0, 2, 13, 15} /\ (\A a \in 4..87 : a \notin {})
      BY <1>15, <2>1
    <3>2. PC' \in 60..81 /\ WR' \in Byte
      BY <1>2, <1>15, <2>1, <2>2, <2>3 DEF Byte
    <3> QED
      BY <1>1, <2>2, <2>4, <3>1, <3>2, RoutineMoves
  <2>6. StackKept'
    BY <1>2, <1>3, <1>4, <1>15, <2>1, <2>2, <2>3, <2>5 DEF RoutineFrame, StackKept
  <2>7. RoutineRegisters'
    BY <1>2, <1>4, <1>15, <2>1, <2>2, <2>3, <2>5 DEF RoutineFrame, LockInv, RoutineRegisters
  <2>8. Locked'
    BY <1>2, <1>4, <1>15, <2>1, <2>2, <2>3, <2>5 DEF RoutineFrame, Locked, RoutineHolds,
       LockCell
  <2>9. Characters'
    <3>1. reg'[5] = reg[5] /\ phase' = "io"
      BY <2>1, <2>2 DEF Moves, PC_REG
    <3> QED
      BY <1>2, <1>4, <1>15, <2>1, <2>2, <2>3, <2>5, <3>1 DEF RoutineFrame, LockInv,
         Characters,
         RoutineHolds, IO_COUT, IO_CMD, IO_NOP, IO_WRITE, IO_READ
  <2> QED
    BY <2>5, <2>6, <2>7, <2>8, <2>9 DEF RoutineFrame, LockInv
<1>16. CASE PC \in {79}
  <2>1. /\ Image[PC] = Inst(CPY, 13)
        /\ WR = ram[91]
        /\ ram[91] \in {4, 5}
    BY <1>1, <1>2, <1>3, <1>4, <1>16, ImageBytes
       DEF LockInv, ProgramRegisters, ProgramSR
  <2>2. Moves({13}, {}) /\ Still /\ reg'[13] = WR /\ PC' = 80
    <3>1. Runs(Inst(CPY, 13))
      BY <1>1, <2>1, Machine
    <3> QED
      BY <1>16, <2>1, <3>1, CpyTurn
  <2>3. /\ SR' = ram[91] /\ WR' = WR /\ SP' = SP /\ reg'[2] = reg[2]
        /\ ram'[0] = ram[0] /\ ram'[2] = ram[2] /\ ram'[88] = ram[88]
        /\ ram'[90] = ram[90] /\ ram'[91] = ram[91]
    BY <1>16, <2>1, <2>2 DEF Moves, SR, SP, WR, PC_REG, SR_REG, SP_REG, WR_REG
  <2>4. ProgramWR' = ProgramWR /\ ProgramSR' = ProgramSR
    <3>1. InRoutine'
      BY <2>2 DEF Still, InRoutine
    <3> QED
      BY <1>2, <1>4, <1>16, <2>1, <2>2, <2>3, <3>1 DEF ProgramWR, ProgramSR
  <2>5. RoutineFrame
    <3>1. {13} \subseteq {0, 2, 13, 15} /\ (\A a \in 4..87 : a \notin {})
      BY <1>16, <2>1
    <3>2. PC' \in 60..81 /\ WR' \in Byte
      BY <1>2, <1>16, <2>1, <2>2, <2>3 DEF Byte
    <3> QED
      BY <1>1, <2>2, <2>4, <3>1, <3>2, RoutineMoves
  <2>6. StackKept'
    BY <1>2, <1>3, <1>4, <1>16, <2>1, <2>2, <2>3, <2>5 DEF RoutineFrame, StackKept
  <2>7. RoutineRegisters'
    BY <1>2, <1>4, <1>16, <2>1, <2>2, <2>3, <2>5 DEF RoutineFrame, LockInv, RoutineRegisters
  <2>8. Locked'
    BY <1>2, <1>4, <1>16, <2>1, <2>2, <2>3, <2>5 DEF RoutineFrame, Locked, RoutineHolds,
       LockCell
  <2>9. Characters'
    <3>1. reg'[5] = reg[5] /\ phase' = "io"
      BY <2>1, <2>2 DEF Moves, PC_REG
    <3> QED
      BY <1>2, <1>4, <1>16, <2>1, <2>2, <2>3, <2>5, <3>1 DEF RoutineFrame, LockInv,
         Characters,
         RoutineHolds, IO_COUT, IO_CMD, IO_NOP, IO_WRITE, IO_READ
  <2> QED
    BY <2>5, <2>6, <2>7, <2>8, <2>9 DEF RoutineFrame, LockInv
<1>17. CASE PC \in {78}
  <2>1. /\ Image[PC] = POP
        /\ SP = 92
    BY <1>1, <1>2, <1>3, <1>4, <1>17, ImageBytes
  <2>2. Moves({15, 0}, {}) /\ Still /\ SP' = 91 /\ WR' = ram[91] /\ PC' = 79
    <3>1. Runs(POP) /\ SP \in 1..95
      BY <1>1, <2>1, Machine
    <3> QED
      BY <1>17, <2>1, <3>1, PopTurn
  <2>3. /\ WR' \in 0..255 /\ SR' = SR /\ reg'[2] = reg[2] /\ ram'[0] = ram[0]
        /\ ram'[2] = ram[2] /\ ram'[88] = ram[88] /\ ram'[90] = ram[90]
        /\ ram'[91] = ram[91]
    BY <1>5, <1>17, <2>1, <2>2 DEF Moves, SR, SP, WR, PC_REG, SR_REG, SP_REG, WR_REG
  <2>4. ProgramWR' = ProgramWR /\ ProgramSR' = ProgramSR
    <3>1. InRoutine'
      BY <2>2 DEF Still, InRoutine
    <3> QED
      BY <1>2, <1>4, <1>17, <2>1, <2>2, <2>3, <3>1 DEF ProgramWR, ProgramSR
  <2>5. RoutineFrame
    <3>1. {15, 0} \subseteq {0, 2, 13, 15} /\ (\A a \in 4..87 : a \notin {})
      BY <1>17, <2>1
    <3>2. PC' \in 60..81 /\ WR' \in Byte
      BY <1>2, <1>17, <2>1, <2>2, <2>3 DEF Byte
    <3> QED
      BY <1>1, <2>2, <2>4, <3>1, <3>2, RoutineMoves
  <2>6. StackKept'
    BY <1>2, <1>3, <1>4, <1>17, <2>1, <2>2, <2>3, <2>5 DEF RoutineFrame, StackKept
  <2>7. RoutineRegisters'
    BY <1>2, <1>4, <1>17, <2>1, <2>2, <2>3, <2>5 DEF RoutineFrame, LockInv, RoutineRegisters
  <2>8. Locked'
    BY <1>2, <1>4, <1>17, <2>1, <2>2, <2>3, <2>5 DEF RoutineFrame, Locked, RoutineHolds,
       LockCell
  <2>9. Characters'
    <3>1. reg'[5] = reg[5] /\ phase' = "io"
      BY <2>1, <2>2 DEF Moves, PC_REG
    <3> QED
      BY <1>2, <1>4, <1>17, <2>1, <2>2, <2>3, <2>5, <3>1 DEF RoutineFrame, LockInv,
         Characters,
         RoutineHolds, IO_COUT, IO_CMD, IO_NOP, IO_WRITE, IO_READ
  <2> QED
    BY <2>5, <2>6, <2>7, <2>8, <2>9 DEF RoutineFrame, LockInv
<1>18. CASE PC \in {80}
  <2>1. /\ Image[PC] = POP
        /\ SP = 91
    BY <1>1, <1>2, <1>3, <1>4, <1>18, ImageBytes
  <2>2. Moves({15, 0}, {}) /\ Still /\ SP' = 90 /\ WR' = ram[90] /\ PC' = 81
    <3>1. Runs(POP) /\ SP \in 1..95
      BY <1>1, <2>1, Machine
    <3> QED
      BY <1>18, <2>1, <3>1, PopTurn
  <2>3. /\ WR' \in 0..255 /\ SR' = SR /\ reg'[2] = reg[2] /\ ram'[0] = ram[0]
        /\ ram'[2] = ram[2] /\ ram'[88] = ram[88] /\ ram'[90] = ram[90]
        /\ ram'[91] = ram[91]
    BY <1>5, <1>18, <2>1, <2>2 DEF Moves, SR, SP, WR, PC_REG, SR_REG, SP_REG, WR_REG
  <2>4. ProgramWR' = ProgramWR /\ ProgramSR' = ProgramSR
    <3>1. InRoutine'
      BY <2>2 DEF Still, InRoutine
    <3> QED
      BY <1>2, <1>4, <1>18, <2>1, <2>2, <2>3, <3>1 DEF ProgramWR, ProgramSR
  <2>5. RoutineFrame
    <3>1. {15, 0} \subseteq {0, 2, 13, 15} /\ (\A a \in 4..87 : a \notin {})
      BY <1>18, <2>1
    <3>2. PC' \in 60..81 /\ WR' \in Byte
      BY <1>2, <1>18, <2>1, <2>2, <2>3 DEF Byte
    <3> QED
      BY <1>1, <2>2, <2>4, <3>1, <3>2, RoutineMoves
  <2>6. StackKept'
    BY <1>2, <1>3, <1>4, <1>18, <2>1, <2>2, <2>3, <2>5 DEF RoutineFrame, StackKept
  <2>7. RoutineRegisters'
    BY <1>2, <1>4, <1>18, <2>1, <2>2, <2>3, <2>5 DEF RoutineFrame, LockInv, RoutineRegisters
  <2>8. Locked'
    BY <1>2, <1>4, <1>18, <2>1, <2>2, <2>3, <2>5 DEF RoutineFrame, Locked, RoutineHolds,
       LockCell
  <2>9. Characters'
    <3>1. reg'[5] = reg[5] /\ phase' = "io"
      BY <2>1, <2>2 DEF Moves, PC_REG
    <3> QED
      BY <1>2, <1>4, <1>18, <2>1, <2>2, <2>3, <2>5, <3>1 DEF RoutineFrame, LockInv,
         Characters,
         RoutineHolds, IO_COUT, IO_CMD, IO_NOP, IO_WRITE, IO_READ
  <2> QED
    BY <2>5, <2>6, <2>7, <2>8, <2>9 DEF RoutineFrame, LockInv
<1>19. CASE PC = 81
  <2>1. Image[PC] = RETINT /\ int_level.level = 1
    BY <1>19, ImageBytes DEF InRoutine
  <2>2. /\ Moves({}, {}) /\ UNCHANGED <<active, routine>> /\ PC' = int_level.routine_stack[1]
        /\ int_level' = [int_level EXCEPT !.level = int_level.level_stack[1]]
    <3>1. Runs(RETINT)
      BY <1>1, <2>1
    <3> QED
      BY <2>1, <3>1, RetintTurn
  <2>3. /\ WR' = WR /\ SR' = SR /\ SP' = 90 /\ \A r \in {3, 5, 6, 8} : reg'[r] = reg[r]
        /\ \A a \in 0..95 : ram'[a] = ram[a]
    BY <1>3, <1>19, <2>2 DEF Moves, SR, SP, WR, PC_REG, SR_REG, SP_REG, WR_REG
  <2>4. /\ ~InRoutine' /\ int_level'.level = LEVEL_NORMAL
        /\ PC' = ProgramPC /\ ProgramPC' = ProgramPC
    <3>1. int_level'.level = 4 /\ LEVEL_NORMAL = 4
      BY <2>2 DEF LockInv, Places, TypeInv, IInv, Shape, LEVEL_NORMAL
    <3>2. PC' = ProgramPC
      BY <2>1, <2>2 DEF ProgramPC, LEVEL_NORMAL
    <3> QED
      BY <3>1, <3>2 DEF InRoutine, ProgramPC
  <2>5. /\ ProgramWR' = ProgramWR /\ ProgramSR' = ProgramSR /\ WR' \in Byte
        /\ ProgramHolds' <=> ProgramHolds
    BY <1>2, <1>19, <2>3, <2>4 DEF ProgramWR, ProgramSR, ProgramHolds, Byte
  <2>6. Places' /\ RoutineRegisters'
    BY <1>1, <2>2, <2>4 DEF LockInv, Places, RoutineRegisters, InRoutine, Moves
  <2>7. CodeKept'
    BY <2>3 DEF LockInv, CodeKept
  <2>8. StackKept'
    BY <1>1, <2>3, <2>4 DEF StackKept
  <2>9. ProgramRegisters'
    BY <2>2, <2>3, <2>4, <2>5 DEF LockInv, ProgramRegisters
  <2>10. Locked' /\ Characters'
    BY <2>3, <2>4, <2>5 DEF LockInv, Locked, RoutineHolds, Characters, LockCell, IO_COUT,
       IO_CMD, IO_NOP
  <2> QED
    BY <2>6, <2>7, <2>8, <2>9, <2>10 DEF LockInv
<1> QED
  BY <1>1, <1>6, <1>8, <1>9, <1>10, <1>11, <1>12, <1>13, <1>14, <1>15, <1>16, <1>17, <1>19,
     <1>7, <1>18

-----------------------------------------------------------------------------
(* The timers, the I/O and the reset. *)

LEMMA TimerStep ==
    ASSUME TypeInv, LockInv, CheckInt
    PROVE  LockInv'
<1>1. /\ phase = "check_int" /\ phase' = "run_inst" /\ active /\ ram[2] = 0
      /\ UNCHANGED <<ram, byte_mode, active, routine>>
  BY DEF LockInv, Places, Characters, CheckInt, IO_CMD, IO_NOP
<1>2. ProgramSR \in {0, 4, 5} /\ (InRoutine => SR \in {4, 5}) /\ SR \in {0, 4, 5}
  BY DEF LockInv, Places, ProgramRegisters, RoutineRegisters, ProgramSR
<1>3. CASE UNCHANGED <<reg, int_level>>
  <2>1. /\ PC' = PC /\ SP' = SP /\ WR' = WR /\ SR' = SR /\ (InRoutine' <=> InRoutine)
        /\ ProgramPC' = ProgramPC
    BY <1>3 DEF PC, SP, WR, SR, InRoutine, ProgramPC
  <2>2. ProgramWR' = ProgramWR /\ ProgramSR' = ProgramSR
    BY <1>1, <2>1 DEF ProgramWR, ProgramSR
  <2>3. Places' /\ CodeKept' /\ StackKept'
    BY <1>1, <1>3, <2>1 DEF LockInv, Places, CodeKept, StackKept
  <2>4. ProgramRegisters' /\ RoutineRegisters'
    BY <1>1, <1>3, <2>1, <2>2 DEF LockInv, ProgramRegisters, RoutineRegisters
  <2>5. Locked' /\ Characters'
    BY <1>1, <1>3, <2>1, <2>2 DEF LockInv, Locked, ProgramHolds, RoutineHolds, Characters,
       IO_CMD, IO_NOP
  <2> QED
    BY <2>3, <2>4, <2>5 DEF LockInv
<1>4. ASSUME NEW i \in Ints, FirstAccepted(i), int_level' = new_int(i, PC),
             reg' = [reg EXCEPT ![PC_REG] = routine[i]]
      PROVE  LockInv'
  <2>1. i = 1 /\ SR # 0 /\ ~InRoutine /\ int_level.level = LEVEL_NORMAL
    <3>1. i < int_level.level /\ enabled_int(i)
      BY <1>4 DEF FirstAccepted, Accepted
    <3>2. i = 1 /\ SR # 0
      BY <1>2, <3>1, Enabled
    <3> QED
      BY <3>1, <3>2 DEF LockInv, Places, InRoutine, LEVEL_NORMAL
  <2>2. /\ ProgramPC = PC /\ PC \in 29..49 /\ ProgramSR = SR /\ ProgramWR = WR
        /\ routine[1] = 60 /\ SP = 90
    <3>1. ProgramPC = PC /\ ProgramSR = SR /\ ProgramWR = WR
      BY <2>1 DEF ProgramPC, ProgramSR, ProgramWR
    <3>2. PC \in 29..49
      BY <1>1, <2>1, <3>1 DEF LockInv, Places, ProgramRegisters
    <3> QED
      BY <2>1, <3>1, <3>2 DEF LockInv, ProgramRegisters, StackKept
  <2>3. /\ PC' = 60 /\ SP' = SP /\ WR' = WR /\ SR' = SR
        /\ \A r \in {2, 3, 5, 6, 8} : reg'[r] = reg[r]
    BY <1>4, <2>1, <2>2 DEF TypeInv, Typed, RegOK, PC, SP, WR, SR, PC_REG, SP_REG, WR_REG,
       SR_REG
  <2>4. /\ InRoutine' /\ ProgramPC' = PC /\ int_level'.level_stack[1] = LEVEL_NORMAL
        /\ int_level'.level = 1
    <3>1. /\ int_level'.level = 1
          /\ int_level'.level_stack = [int_level.level_stack EXCEPT ![1] = int_level.level]
          /\ int_level'.routine_stack = [int_level.routine_stack EXCEPT ![1] = PC]
      BY <1>4, <2>1 DEF new_int
    <3>2. 1 \in Ints /\ DOMAIN int_level.level_stack = Ints
          /\ DOMAIN int_level.routine_stack = Ints
      BY DEF TypeInv, IInv, Shape, Ints
    <3>3. LEVEL_NORMAL = 4
      BY DEF LEVEL_NORMAL
    <3> QED
      BY <2>1, <3>1, <3>2, <3>3 DEF InRoutine, ProgramPC
  <2>5. ProgramWR' = ProgramWR /\ ProgramSR' = ProgramSR
    BY <2>2, <2>3 DEF ProgramWR, ProgramSR
  <2>6. Places' /\ CodeKept' /\ StackKept'
    BY <1>1, <2>2, <2>3, <2>4 DEF LockInv, Places, CodeKept, StackKept
  <2>7. ProgramRegisters' /\ RoutineRegisters'
    BY <1>1, <2>1, <2>2, <2>3, <2>4, <2>5 DEF LockInv, ProgramRegisters, RoutineRegisters
  <2>8. Locked' /\ Characters'
    BY <1>1, <2>2, <2>3, <2>4, <2>5 DEF LockInv, Locked, ProgramHolds, RoutineHolds,
       Characters,
       IO_CMD, IO_NOP
  <2> QED
    BY <2>6, <2>7, <2>8 DEF LockInv
<1> QED
  BY <1>3, <1>4 DEF CheckInt

LEMMA IoStep ==
    ASSUME TypeInv, LockInv, Io
    PROVE  LockInv'
<1>1. /\ phase = "io" /\ phase' = IF active THEN "check_int" ELSE "returned"
      /\ UNCHANGED <<reg, byte_mode, active, routine, int_level>>
  <2>1. PC < RamSize
    BY Machine DEF LockInv, Places, ProgramPC, InRoutine, LEVEL_NORMAL
  <2>2. PC \in Nat /\ RamSize \in Nat
    BY Machine DEF LockInv, Places, ProgramPC, InRoutine, LEVEL_NORMAL
  <2> QED
    BY <2>1, <2>2 DEF Io
<1>2. /\ ram'[2] = 0
      /\ \A a \in 0..95 : a \notin {1, 2, 3} => ram'[a] = ram[a]
  <2> SUFFICES ASSUME NEW a \in 0..95
               PROVE  ram'[2] = 0 /\ (a \notin {1, 2, 3} => ram'[a] = ram[a])
    OBVIOUS
  <2>1. extended_io
    BY Machine DEF Io
  <2>2. ram \in [0..95 -> 0..255]
    BY Machine DEF TypeInv, Typed, RamOK, Byte
  <2>3. ram' = [ram EXCEPT ![2] = 0]
        \/ \E x, y : ram' = [ram EXCEPT ![1] = x, ![3] = y, ![2] = 0]
    BY <2>1 DEF extended_io, IO_CMD, IO_CIN, IO_STATUS, IO_NOP
  <2>4. CASE ram' = [ram EXCEPT ![2] = 0]
    BY <2>2, <2>4
  <2>5. CASE \E x, y : ram' = [ram EXCEPT ![1] = x, ![3] = y, ![2] = 0]
    <3>1. PICK x, y : ram' = [ram EXCEPT ![1] = x, ![3] = y, ![2] = 0]
      BY <2>5
    <3> QED
      BY <2>2, <3>1
  <2> QED
    BY <2>3, <2>4, <2>5
<1>3. /\ PC' = PC /\ SP' = SP /\ WR' = WR /\ SR' = SR /\ (InRoutine' <=> InRoutine)
      /\ ProgramPC' = ProgramPC
  BY <1>1 DEF PC, SP, WR, SR, InRoutine, ProgramPC
<1>4. ProgramWR' = ProgramWR /\ ProgramSR' = ProgramSR /\ ram'[90] = ram[90]
      /\ ram'[91] = ram[91]
  BY <1>2, <1>3 DEF ProgramWR, ProgramSR
<1>5. Places' /\ CodeKept' /\ StackKept'
  BY <1>1, <1>2, <1>3, <1>4 DEF LockInv, Places, CodeKept, StackKept
<1>6. ProgramRegisters' /\ RoutineRegisters'
  BY <1>1, <1>3, <1>4 DEF LockInv, ProgramRegisters, RoutineRegisters
<1>7. Locked' /\ Characters'
  BY <1>1, <1>2, <1>3, <1>4 DEF LockInv, Locked, ProgramHolds, RoutineHolds, Characters,
     LockCell, IO_CMD, IO_NOP, IO_COUT
<1> QED
  BY <1>5, <1>6, <1>7 DEF LockInv

LEMMA InitLockInv == Init => LockInv
<1> SUFFICES ASSUME Init PROVE LockInv
  OBVIOUS
<1>1. /\ PC = 4 /\ SP = 0 /\ WR = 0 /\ SR = 0 /\ reg[6] = 0
      /\ ~InRoutine /\ ProgramPC = 4 /\ ProgramWR = 0 /\ ProgramSR = 0
  BY DEF Init, PC, SP, WR, SR, PC_REG, SP_REG, WR_REG, SR_REG, InRoutine, ProgramPC,
     ProgramWR,
     ProgramSR, START_CHAR, LEVEL_NORMAL
<1>2. ram = [Image EXCEPT ![IO_CMD] = IO_NOP] /\ Image \in [0..95 -> 0..255]
  <2>1. Images = {Image} /\ ExtendedIo
    BY LockMachine
  <2>2. Image \in [Addresses -> Byte]
    BY <2>1, SimulatorAssumption
  <2> QED
    BY <2>1, <2>2, Machine DEF Init, prepare_extended_io, Byte
<1>3. Places /\ StackKept
  BY <1>1 DEF Init, Places, StackKept, LEVEL_NORMAL
<1>6. CodeKept
  BY <1>2 DEF CodeKept, IO_CMD
<1>4. ProgramRegisters /\ RoutineRegisters
  BY <1>1 DEF ProgramRegisters, RoutineRegisters, Byte
<1>5. Locked /\ Characters
  <2>1. ~ProgramHolds /\ ~RoutineHolds
    BY <1>1 DEF ProgramHolds, RoutineHolds
  <2>2. ram[2] = 0
    BY <1>2 DEF IO_CMD, IO_NOP
  <2> QED
    BY <1>1, <2>1, <2>2 DEF Locked, Characters, IO_CMD, IO_NOP
<1> QED
  BY <1>3, <1>4, <1>5, <1>6 DEF LockInv

(* Every step. *)
LEMMA StepLockInv ==
    ASSUME TypeInv, LockInv, [Next]_vars
    PROVE  LockInv'
<1>1. CASE UNCHANGED vars
  <2>1. /\ Places' /\ CodeKept' /\ StackKept'
    BY <1>1 DEF vars, LockInv, Places, CodeKept, StackKept, InRoutine, ProgramPC, PC, SP, SR,
       WR
  <2>2. ProgramRegisters' /\ RoutineRegisters' /\ Locked' /\ Characters'
    BY <1>1 DEF vars, LockInv, ProgramRegisters, RoutineRegisters, Locked, Characters,
       ProgramHolds, RoutineHolds, ProgramWR, ProgramSR, InRoutine, ProgramPC, PC, SR, WR
  <2> QED
    BY <2>1, <2>2 DEF LockInv
<1>2. CASE RunInst
  BY <1>2, ProgramStep, RoutineStep DEF RunInst
<1> QED
  BY <1>1, <1>2, TimerStep, IoStep DEF Next, Ended

LEMMA LockInvariance == Spec => [](TypeInv /\ LockInv)
<1>1. TypeInv /\ LockInv /\ [Next]_vars => TypeInv' /\ LockInv'
  BY StepTypeInv, StepLockInv
<1> QED
  BY <1>1, InitTypeInv, InitLockInv, PTL DEF Spec

(* The critical sections, in addresses. *)
LEMMA Sections == ProgramSection = 35..48 /\ RoutineSection = 69..77
<1>1. Len(Setup) = 13
  BY DEF Setup, LoadConst
<1>2. Len(TryLock(11)) = 6 /\ Len(TryLock(12)) = 6
  BY DEF TryLock, LoadConst
<1>3. Len(ReadChar) = 6 /\ Len(PrintChar) = 6
  BY DEF ReadChar, PrintChar
<1>4. Len(PrintBang) = 7
  BY DEF PrintBang, LoadConst
<1>5. ProgramSection = (16 + 13 + 6)..((16 + 13 + 6) + 6 + 6 + 1)
  BY <1>1, <1>2, <1>3, Zenon DEF ProgramSection
<1>6. RoutineSection = (60 + 3 + 6)..((60 + 3 + 6) + 7 + 1)
  BY <1>2, <1>4, Zenon DEF RoutineSection
<1>7. /\ 16 + 13 + 6 = 35 /\ (16 + 13 + 6) + 6 + 6 + 1 = 48
      /\ 60 + 3 + 6 = 69 /\ (60 + 3 + 6) + 7 + 1 = 77
  OBVIOUS
<1> QED
  BY <1>5, <1>6, <1>7, Zenon

(* Wherever the timer interrupts the program, the program and the routine  *)
(* are never both inside of their critical sections, and whoever is inside *)
(* holds the lock that ATOM took: with any timers, on any host.            *)
THEOREM LockExcludes == Spec => []MutualExclusion
<1>1. LockInv => MutualExclusion
  <2> SUFFICES ASSUME LockInv PROVE MutualExclusion
    OBVIOUS
  <2>1. ProgramInside => ProgramHolds
    BY Sections DEF ProgramInside, ProgramHolds
  <2>2. RoutineInside => RoutineHolds
    BY Sections DEF RoutineInside, RoutineHolds, InRoutine
  <2> QED
    BY <2>1, <2>2 DEF LockInv, Locked, MutualExclusion
<1> QED
  BY <1>1, LockInvariance, PTL

(* The program prints the character that it read, and the routine the one  *)
(* of its own: nobody stores in the cells of the I/O between the store of  *)
(* the character and the turn that prints it.                              *)
THEOREM PrintsItsCharacter == Spec => PrintsWhatItRead
<1>1. ASSUME TypeInv, LockInv, [Next]_vars, vars' # vars, phase = "io", out' # <<>>
      PROVE  out' = <<Character(IF int_level.level = 1 THEN Bang ELSE reg[R(5)])>>
  <2>1. Io
    BY <1>1 DEF Next, Ended, CheckInt, RunInst
  <2>2. extended_io
    BY <2>1, Machine DEF Io
  <2>3. ram[IO_CMD] = IO_WRITE /\ out' = <<Character(ram[IO_COUT])>>
    BY <1>1, <2>2 DEF extended_io, Printed
  <2>4. IF InRoutine THEN PC = 76 ELSE PC = 47
    BY <1>1, <2>3 DEF LockInv, Characters, IO_NOP, IO_WRITE, IO_READ
  <2>5. ram[IO_COUT] = IF InRoutine THEN Bang ELSE reg[5]
    BY <1>1, <2>4 DEF LockInv, Characters, Places, ProgramPC, InRoutine, LEVEL_NORMAL
  <2> QED
    BY <2>3, <2>5 DEF InRoutine, R
<1>2. TypeInv /\ LockInv /\ [Next]_vars =>
        [phase = "io" /\ out' # <<>> =>
           out' = <<Character(IF int_level.level = 1 THEN Bang ELSE reg[R(5)])>>]_vars
  BY <1>1
<1> QED
  BY <1>2, LockInvariance, PTL DEF Spec, PrintsWhatItRead
=============================================================================
