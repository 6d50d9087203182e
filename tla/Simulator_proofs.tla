-------------------------- MODULE Simulator_proofs --------------------------
(***************************************************************************)
(* The interrupt system of the simulator, for every word size, RAM, image, *)
(* timer configuration and garbage of malloc: the contexts nest by         *)
(* priority, and the simulator implements PriorityNest; every register     *)
(* stays a word_t and every cell of the RAM a byte, whatever the           *)
(* instructions compute, and a word that is stored is the word that a load *)
(* gives back.                                                             *)
(***************************************************************************)
EXTENDS TrapWatch, Contexts_proofs, Words_proofs

(* What the proofs need to know of the shape of the state. *)
Shape ==
    /\ DOMAIN reg = 0..15
    /\ int_level = [level |-> int_level.level,
                    level_stack |-> int_level.level_stack,
                    routine_stack |-> int_level.routine_stack]
    /\ DOMAIN int_level.level_stack = Ints
    /\ DOMAIN int_level.routine_stack = Ints
    /\ int_level.level \in 0..LEVEL_NORMAL

(* The inductive invariant. *)
IInv == Shape /\ NestInv

-----------------------------------------------------------------------------
(* The three ways in which the interrupt state changes. *)

(* A context of higher priority than the current level opens. *)
LEMMA OpenContext ==
    ASSUME IInv, NEW i \in Ints, NEW pc,
           i < int_level.level,
           int_level' = new_int(i, pc),
           DOMAIN reg' = 0..15
    PROVE  IInv' /\ Nest!Enter(i)
<1>1. /\ int_level'.level = i
      /\ int_level'.level_stack = [int_level.level_stack EXCEPT ![i] = int_level.level]
      /\ int_level'.routine_stack = [int_level.routine_stack EXCEPT ![i] = pc]
  BY DEF new_int
<1>2. Shape'
  BY <1>1 DEF IInv, Shape, new_int, Ints, LEVEL_NORMAL
<1>3. NestInv' /\ Active' = Active \cup {i} /\ \A k \in Active : i < k
  BY <1>1, OpenOnTop DEF IInv, Shape, NestInv, Active, OnTop
<1>4. Nest!Enter(i)
  BY <1>1, <1>3 DEF Nest!Enter, IInv, Shape
<1> QED
  BY <1>2, <1>3, <1>4 DEF IInv

(* The context of the current level closes. *)
LEMMA CloseContext ==
    ASSUME IInv,
           int_level.level # LEVEL_NORMAL,
           int_level' = [int_level EXCEPT !.level = int_level.level_stack[int_level.level]],
           DOMAIN reg' = 0..15,
           PC' = int_level.routine_stack[int_level.level]
    PROVE  IInv' /\ Nest!Leave(int_level.level)
<1> DEFINE l == int_level.level
<1>1. /\ int_level'.level = int_level.level_stack[l]
      /\ int_level'.level_stack = int_level.level_stack
      /\ int_level'.routine_stack = int_level.routine_stack
      /\ l \in Ints
  BY DEF IInv, Shape, Ints, LEVEL_NORMAL
<1>2. /\ int_level.level_stack[l] \in (l + 1)..LEVEL_NORMAL
      /\ NestInv' /\ Active' = Active \ {l}
      /\ l \in Active /\ \A k \in Active : l <= k
  BY <1>1, CloseTop DEF IInv, NestInv, Active
<1>3. Shape'
  BY <1>1, <1>2 DEF IInv, Shape, LEVEL_NORMAL, Ints
<1>4. Nest!Leave(l)
  BY <1>1, <1>2 DEF Nest!Leave, Nest!Innermost
<1> QED
  BY <1>2, <1>3, <1>4 DEF IInv

(* The level and the stack of levels stay, and so do the contexts. *)
LEMMA KeepContexts ==
    ASSUME IInv,
           DOMAIN reg' = 0..15,
           \/ UNCHANGED int_level
           \/ \E i \in Ints : \E value :
                int_level' = [int_level EXCEPT !.routine_stack[i] = value]
    PROVE  IInv' /\ (Nest!Run \/ \E i \in Nest!Ints : Nest!Redirect(i))
<1>1. int_level'.level = int_level.level /\ int_level'.level_stack = int_level.level_stack
  BY DEF IInv, Shape
<1>2. Active' = Active
  BY <1>1 DEF Active
<1>3. NestInv'
  BY <1>1 DEF IInv, NestInv
<1>4. CASE UNCHANGED int_level
  BY <1>2, <1>3, <1>4 DEF IInv, Shape, Nest!Run
<1>5. CASE \E i \in Ints : \E value :
             int_level' = [int_level EXCEPT !.routine_stack[i] = value]
  <2>1. PICK i \in Ints : \E value :
           int_level' = [int_level EXCEPT !.routine_stack[i] = value]
    BY <1>5
  <2>2. Shape'
    BY <1>1, <2>1 DEF IInv, Shape, Ints
  <2>3. Nest!Redirect(i)
    BY <1>2, <2>1 DEF IInv, Shape, Nest!Redirect
  <2> QED
    BY <1>3, <2>2, <2>3 DEF IInv, Ints, Nest!Ints
<1> QED
  BY <1>4, <1>5

-----------------------------------------------------------------------------
(* A step of the simulator, and what it is for PriorityNest. *)

NestStep == Nest!NestNext \/ UNCHANGED Nest!nestVars

(* An access to the RAM opens the context of interrupt 0 when it traps,    *)
(* and otherwise leaves the interrupts alone.                              *)
LEMMA AccessStep ==
    ASSUME IInv, NEW addr, NEW n,
           int_level' = LevelAfter(addr, n),
           DOMAIN reg' = 0..15
    PROVE  IInv' /\ NestStep
<1>1. CASE Trap(addr, n)
  <2>1. int_level.level \in 1..LEVEL_NORMAL
    BY <1>1 DEF Trap, IInv, Shape, LEVEL_NORMAL
  <2>2. int_level' = new_int(0, (PC - 1) % HostMod)
    BY <1>1 DEF LevelAfter
  <2>3. IInv' /\ Nest!Enter(0)
    BY <2>1, <2>2, OpenContext, 0 < int_level.level DEF Ints, LEVEL_NORMAL
  <2> QED
    BY <2>3 DEF NestStep, Nest!NestNext, Nest!Ints
<1>2. CASE ~Trap(addr, n)
  BY <1>2, KeepContexts DEF LevelAfter, NestStep, Nest!NestNext, Nest!Ints
<1> QED
  BY <1>1, <1>2

(* The reset opens no context. *)
LEMMA InitIInv == Init => IInv
<1> SUFFICES ASSUME Init PROVE IInv
  OBVIOUS
<1>1. /\ int_level \in [level : {LEVEL_NORMAL},
                        level_stack : [Ints -> Garbage],
                        routine_stack : [Ints -> Garbage]]
      /\ DOMAIN reg = 0..15
  BY DEF Init
<1>2. Shape
  BY <1>1 DEF Shape, LEVEL_NORMAL
<1>3. NestInv
  BY <1>1, NoneOpen DEF NestInv
<1> QED
  BY <1>2, <1>3 DEF IInv

(* check_int opens one context at most, by priority. *)
LEMMA CheckIntStep ==
    ASSUME IInv, CheckInt
    PROVE  IInv' /\ NestStep
<1>1. CASE UNCHANGED <<reg, int_level>>
  <2>1. DOMAIN reg' = 0..15 /\ UNCHANGED int_level
    BY <1>1 DEF IInv, Shape
  <2> QED
    BY <2>1, KeepContexts DEF NestStep, Nest!NestNext
<1>2. CASE \E i \in Ints :
             /\ FirstAccepted(i)
             /\ int_level' = new_int(i, PC)
             /\ reg' = [reg EXCEPT ![PC_REG] = routine[i]]
  <2>1. PICK i \in Ints :
             /\ FirstAccepted(i)
             /\ int_level' = new_int(i, PC)
             /\ reg' = [reg EXCEPT ![PC_REG] = routine[i]]
    BY <1>2
  <2>2. i < int_level.level /\ DOMAIN reg' = 0..15
    BY <2>1 DEF FirstAccepted, Accepted, IInv, Shape
  <2>3. IInv' /\ Nest!Enter(i)
    BY <2>1, <2>2, OpenContext
  <2> QED
    BY <2>3 DEF NestStep, Nest!NestNext, Nest!Ints, Ints
<1> QED
  BY <1>1, <1>2 DEF CheckInt

(* An instruction on registers leaves the interrupts alone. *)
LEMMA RegisterInstStep ==
    ASSUME IInv, NEW i, RegisterInst(i)
    PROVE  IInv' /\ NestStep
<1>1. DOMAIN reg' = 0..15
  BY DEF IInv, Shape, RegisterInst, Set, Read, Cpy, Alu, Compare, Jif, Debug,
         GetInt, GetIntStack, SetWR, Done, WithComp
<1>2. UNCHANGED int_level
  BY DEF RegisterInst
<1> QED
  BY <1>1, <1>2, KeepContexts DEF NestStep, Nest!NestNext

(* An instruction on the RAM opens the context of interrupt 0 or none,     *)
(* and a store never reaches the interrupt stacks.                         *)
LEMMA MemoryInstStep ==
    ASSUME IInv, NEW i, MemoryInst(i)
    PROVE  IInv' /\ NestStep
<1>1. DOMAIN reg' = 0..15
  BY DEF IInv, Shape, MemoryInst, Str, Load, Atom, Push, Pop, Call, Ret,
         ExitMemory, WithComp
<1>2. UNCHANGED int_level \/ \E addr, n : int_level' = LevelAfter(addr, n)
  BY DEF MemoryInst, Str, Load, Atom, Push, Pop, Call, Ret, ExitMemory
<1>3. CASE UNCHANGED int_level
  BY <1>1, <1>3, KeepContexts DEF NestStep, Nest!NestNext
<1>4. CASE \E addr, n : int_level' = LevelAfter(addr, n)
  BY <1>1, <1>4, AccessStep
<1> QED
  BY <1>2, <1>3, <1>4

(* SOFTINT opens a context, RETINT closes one, and SETINTSTACK redirects   *)
(* one; the rest leave them alone.                                         *)
LEMMA ModeInstStep ==
    ASSUME IInv, NEW i, ModeInst(i)
    PROVE  IInv' /\ NestStep
<1>1. DOMAIN reg' = 0..15
  BY DEF IInv, Shape, ModeInst, Quit, Tbm, SetInt, SetIntStack, SoftInt, RetInt, Done
<1>2. CASE Quit(i) \/ Tbm(i) \/ \E n \in Ints : SetInt(i, n)
  BY <1>1, <1>2, KeepContexts DEF Quit, Tbm, SetInt, NestStep, Nest!NestNext
<1>3. ASSUME NEW n \in Ints, SetIntStack(i, n)
      PROVE  IInv' /\ NestStep
  BY <1>1, <1>3, KeepContexts DEF SetIntStack, NestStep, Nest!NestNext
<1>4. ASSUME NEW n \in Ints, SoftInt(i, n)
      PROVE  IInv' /\ NestStep
  <2>1. CASE Accepted(n)
    <3>1. int_level' = new_int(n, NextPC) /\ n < int_level.level
      BY <1>4, <2>1 DEF SoftInt, Accepted
    <3>2. IInv' /\ Nest!Enter(n)
      BY <1>1, <3>1, OpenContext
    <3> QED
      BY <3>2 DEF NestStep, Nest!NestNext, Nest!Ints, Ints
  <2>2. CASE ~Accepted(n)
    BY <1>1, <1>4, <2>2, KeepContexts DEF SoftInt, NestStep, Nest!NestNext
  <2> QED
    BY <2>1, <2>2
<1>5. CASE RetInt(i)
  <2>1. CASE int_level.level # LEVEL_NORMAL
    <3>1. reg' = [reg EXCEPT ![PC_REG] = int_level.routine_stack[int_level.level]]
      BY <1>5, <2>1 DEF RetInt
    <3>2. PC' = int_level.routine_stack[int_level.level]
      BY <3>1 DEF IInv, Shape, PC, PC_REG
    <3>3. int_level' = [int_level EXCEPT !.level = int_level.level_stack[int_level.level]]
      BY <1>5, <2>1 DEF RetInt
    <3>4. IInv' /\ Nest!Leave(int_level.level)
      BY <1>1, <2>1, <3>2, <3>3, CloseContext
    <3>5. int_level.level \in Nest!Ints
      BY <2>1 DEF IInv, Shape, LEVEL_NORMAL, Nest!Ints
    <3> QED
      BY <3>4, <3>5 DEF NestStep, Nest!NestNext
  <2>2. CASE int_level.level = LEVEL_NORMAL
    BY <1>1, <1>5, <2>2, KeepContexts DEF RetInt, NestStep, Nest!NestNext
  <2> QED
    BY <2>1, <2>2
<1> QED
  BY <1>2, <1>3, <1>4, <1>5 DEF ModeInst

(* Every step keeps the contexts nested, and is a step of PriorityNest.    *)
LEMMA StepIInv ==
    ASSUME IInv, [Next]_vars
    PROVE  IInv' /\ NestStep
<1>1. CASE CheckInt
  BY <1>1, CheckIntStep
<1>2. CASE RunInst
  <2>1. PICK i \in Fetched : RegisterInst(i) \/ MemoryInst(i) \/ ModeInst(i)
    BY <1>2 DEF RunInst
  <2> QED
    BY <2>1, RegisterInstStep, MemoryInstStep, ModeInstStep
<1>3. CASE Io
  BY <1>3, KeepContexts DEF Io, IInv, Shape, NestStep, Nest!NestNext
<1>4. CASE UNCHANGED vars
  BY <1>4, KeepContexts DEF vars, IInv, Shape, NestStep, Nest!NestNext
<1> QED
  BY <1>1, <1>2, <1>3, <1>4 DEF Next, Ended

-----------------------------------------------------------------------------
(* The contexts nest by priority in every run of every program: RETINT     *)
(* never follows a level_stack entry that no interrupt has written.        *)
THEOREM Nesting == Spec => []NestInv
<1>1. IInv /\ [Next]_vars => IInv'
  BY StepIInv
<1>2. IInv => NestInv
  BY DEF IInv
<1> QED
  BY InitIInv, <1>1, <1>2, PTL DEF Spec

(* The simulator implements the interrupt system of PriorityNest.          *)
THEOREM SimulatorNests == Spec => NestSpec
<1>1. Init => Nest!NestInit
  <2> SUFFICES ASSUME Init PROVE Nest!NestInit
    OBVIOUS
  <2>1. int_level.level = LEVEL_NORMAL
    BY DEF Init
  <2> QED
    BY <2>1, NoneOpen DEF Nest!NestInit, Active
<1>2. IInv /\ [Next]_vars => IInv' /\ [Nest!NestNext]_(Nest!nestVars)
  BY StepIInv DEF NestStep
<1> QED
  BY InitIInv, <1>1, <1>2, PTL DEF Spec, NestSpec, Nest!NestSpec

-----------------------------------------------------------------------------
(* In a RAM that holds the start address, an instruction is fetched from   *)
(* outside of the RAM only as the first of an interrupt routine there.     *)

FetchInv ==
    /\ FetchChecked
    /\ phase = "check_int" => ~(PC >= RamSize)

(* The PC is checked at the end of every turn, and check_int alone moves   *)
(* it before the next fetch.                                               *)
THEOREM FetchIsChecked ==
    ASSUME START_CHAR < RamSize
    PROVE  Spec => []FetchChecked
<1>1. Init => FetchInv
  BY SimulatorAssumption DEF Init, FetchInv, FetchChecked, PC, PC_REG, START_CHAR
<1>2. IInv /\ FetchInv /\ [Next]_vars => FetchInv'
  <2> SUFFICES ASSUME IInv, FetchInv, [Next]_vars
               PROVE  FetchInv'
    OBVIOUS
  <2>1. CASE CheckInt
    <3>1. ~(PC >= RamSize) /\ phase' = "run_inst"
      BY <2>1 DEF CheckInt, FetchInv
    <3>2. CASE UNCHANGED <<reg, int_level>>
      BY <3>1, <3>2 DEF FetchInv, FetchChecked, PC
    <3>3. ASSUME NEW i \in Ints,
                 int_level' = new_int(i, PC),
                 reg' = [reg EXCEPT ![PC_REG] = routine[i]]
          PROVE  FetchInv'
      BY <2>1, <3>1, <3>3 DEF FetchInv, FetchChecked, PC, PC_REG, new_int, CheckInt,
                              IInv, Shape
    <3> QED
      BY <2>1, <3>2, <3>3 DEF CheckInt
  <2>2. CASE RunInst
    <3>1. phase' \in {"io", "RET_MEMORY"}
      BY <2>2 DEF RunInst, RegisterInst, MemoryInst, ModeInst, Str, Load, Atom, Push,
                  Pop, Call, Ret, ExitMemory
    <3> QED
      BY <3>1 DEF FetchInv, FetchChecked
  <2>3. CASE Io
    BY <2>3 DEF Io, FetchInv, FetchChecked, PC
  <2>4. CASE UNCHANGED vars
    BY <2>4 DEF vars, FetchInv, FetchChecked, PC
  <2> QED
    BY <2>1, <2>2, <2>3, <2>4 DEF Next, Ended
<1>3. FetchInv => FetchChecked
  BY DEF FetchInv
<1>4. IInv /\ [Next]_vars => IInv'
  BY StepIInv
<1> QED
  BY InitIInv, <1>1, <1>2, <1>3, <1>4, PTL DEF Spec
-----------------------------------------------------------------------------
(* The parts of TypeOK. *)

RegOK == reg \in [0..15 -> Host]

RamOK == ram \in [Addresses -> Byte]

FlagsOK == byte_mode \in BOOLEAN /\ active \in BOOLEAN

RoutineOK == routine \in [Ints -> Host]

TimersOK ==
    /\ freq \in Timers /\ DOMAIN count_up = DOMAIN freq
    /\ \A i \in DOMAIN freq : count_up[i] \in Nat /\ (count_up[i] = 0 \/ count_up[i] < freq[i])

LevelOK ==
    /\ int_level.level_stack \in [Ints -> Host]
    /\ int_level.routine_stack \in [Ints -> Host]

TurnOK ==
    /\ phase \in {"check_int", "run_inst", "io", "RET_MEMORY", "returned"}
    /\ out \in Seq(Message)

Typed == RegOK /\ RamOK /\ FlagsOK /\ RoutineOK /\ TimersOK /\ LevelOK /\ TurnOK

(* The inductive invariant. *)
TypeInv == IInv /\ Typed

LEMMA TypeInvTypeOK == TypeInv => TypeOK
BY DEF TypeInv, TypeOK, Typed, RegOK, RamOK, FlagsOK, RoutineOK, TimersOK, LevelOK,
       TurnOK, IInv, Shape

-----------------------------------------------------------------------------
(* The sizes of the words. *)

LEMMA Sizes ==
    /\ WordBytes \in Nat \ {0} /\ WordBits \in Nat \ {0}
    /\ HostBits \in Nat \ {0} /\ RamSize \in Nat \ {0}
    /\ HostMod \in Nat \ {0} /\ HostMod >= 256 /\ RamSize <= HostMod
    /\ WordMod \in Nat \ {0} /\ WordMod <= HostMod
    /\ \E half \in Nat : HostMod = 2 * half
<1>1. /\ WordBytes \in Nat \ {0} /\ WordBits \in Nat \ {0} /\ WordBits >= 8
      /\ HostBits \in Nat \ {0} /\ HostBits >= 8 /\ WordBits <= HostBits
      /\ RamSize \in Nat \ {0} /\ RamSize <= HostMod
  BY SimulatorAssumption, HostBitsAssumption DEF WordBits
<1>2. HostMod \in Nat \ {0} /\ WordMod \in Nat \ {0}
  BY <1>1, PowPositive DEF HostMod, WordMod
<1>3. WordMod <= HostMod
  BY <1>1, PowMonotone DEF HostMod, WordMod
<1>4. HostMod >= 256
  <2>1. 2^8 <= 2^HostBits
    BY <1>1, PowMonotone
  <2> QED
    BY <2>1, <1>2 DEF HostMod
<1>5. HostMod = 2 * 2^(HostBits - 1) /\ 2^(HostBits - 1) \in Nat
  <2>1. HostBits - 1 \in Nat /\ (HostBits - 1) + 1 = HostBits
    BY <1>1
  <2> QED
    BY <2>1, PowStep, PowType DEF HostMod
<1> QED
  BY <1>1, <1>2, <1>3, <1>4, <1>5

LEMMA HostIs == Host = HostWord
BY DEF Host, HostWord

LEMMA RegOfType ==
    ASSUME NEW i \in Byte
    PROVE  RegOf(i) \in 0..15
BY DEF RegOf, Byte

-----------------------------------------------------------------------------
(* What the helpers of an instruction compute. *)

LEMMA DoneType ==
    ASSUME NEW registers \in [0..15 -> Host], Done(registers)
    PROVE  RegOK'
<1>1. (registers[PC_REG] + 1) % HostMod \in Host
  <2>1. registers[PC_REG] \in Nat
    BY DEF Host, PC_REG
  <2> QED
    BY <2>1, Sizes DEF Host
<1> QED
  BY <1>1 DEF Done, RegOK, PC_REG

LEMMA SetWRType ==
    ASSUME RegOK, NEW value \in Host, SetWR(value)
    PROVE  RegOK'
<1>1. [reg EXCEPT ![WR_REG] = value] \in [0..15 -> Host]
  BY DEF RegOK, WR_REG
<1> QED
  BY <1>1, DoneType DEF SetWR

LEMMA WithCompType ==
    ASSUME RegOK, NEW b
    PROVE  WithComp(reg, b) \in [0..15 -> Host]
<1>1. ASSUME NEW v \in Host
      PROVE  (v - (v % 2)) + (IF b THEN 1 ELSE 0) \in Host
  <2>1. PICK half \in Nat : HostMod = 2 * half
    BY Sizes
  <2>2. v \in Nat /\ v < 2 * half
    BY <2>1 DEF Host
  <2> QED
    BY <2>1, <2>2 DEF Host
<1>2. reg[SR_REG] \in Host
  BY DEF RegOK, SR_REG
<1>3. (reg[SR_REG] - (reg[SR_REG] % 2)) + (IF b THEN 1 ELSE 0) \in Host
  BY <1>1, <1>2
<1> QED
  BY <1>3 DEF RegOK, WithComp, SR_REG

LEMMA RegistersType ==
    ASSUME RegOK
    PROVE  WR \in Host /\ SR \in Host /\ PC \in Host /\ SP \in Host
BY DEF RegOK, WR, SR, PC, SP, WR_REG, SR_REG, PC_REG, SP_REG

LEMMA NextPCType ==
    ASSUME RegOK
    PROVE  NextPC \in Host /\ (PC - 1) % HostMod \in Host
<1>1. PC \in Nat
  BY RegistersType DEF Host
<1> QED
  BY <1>1, Sizes DEF NextPC, Host

LEMMA ModType ==
    ASSUME NEW v \in Int
    PROVE  (v % WordMod) \in Host
BY Sizes DEF Host

LEMMA AluType ==
    ASSUME RegOK, NEW i \in Byte, Alu(i)
    PROVE  RegOK'
<1> DEFINE r == reg[RegOf(i)]
<1>1. r \in Host /\ WR \in Host /\ r \in Nat /\ WR \in Nat
  BY RegOfType, RegistersType DEF RegOK, Host
<1>2. (WR + r) % WordMod \in Host
  BY <1>1, ModType
<1>3. BitAnd(WR, r) \in Host /\ BitOr(WR, r) \in Host /\ BitXor(WR, r) \in Host
  BY WordOperators, HostIs
<1>4. WordMod - 1 - (r % WordMod) \in Host
  BY <1>1, Sizes DEF Host
<1>5. (WordMod - (WR % WordMod)) % WordMod \in Host
  <2>1. WordMod - (WR % WordMod) \in Int
    BY <1>1, Sizes
  <2> QED
    BY <2>1, ModType
<1>6. ASSUME NEW s \in ShiftAmounts(r)
      PROVE  ShiftLeft(WR, s, WordBits) \in Host /\ ShiftRight(WR, s) \in Host
  <2>1. s \in Nat
    BY <1>1 DEF ShiftAmounts
  <2>2. /\ ShiftLeft(WR, s, WordBits) \in 0..(2^WordBits - 1)
        /\ ShiftRight(WR, s) \in 0..WR
    BY <1>1, <2>1, Sizes, ShiftType
  <2> QED
    BY <1>1, <2>2, Sizes DEF Host, WordMod
<1> HIDE DEF r
<1> QED
  BY <1>2, <1>3, <1>4, <1>5, <1>6, SetWRType DEF Alu, r

LEMMA CompareType ==
    ASSUME RegOK, NEW i \in Byte, Compare(i)
    PROVE  RegOK'
BY WithCompType, DoneType DEF Compare

LEMMA RegisterInstType ==
    ASSUME TypeInv, NEW i \in Byte, RegisterInst(i)
    PROVE  RegOK'
<1>1. RegOK /\ RoutineOK /\ LevelOK /\ RegOf(i) \in 0..15
  BY RegOfType DEF TypeInv, Typed
<1>2. CASE Set(i)
  <2>1. RegOf(i) \in Host
    BY <1>1, Sizes DEF Host
  <2> QED
    BY <1>1, <1>2, <2>1, SetWRType DEF Set
<1>3. CASE Read(i)
  <2>1. reg[RegOf(i)] \in Host
    BY <1>1 DEF RegOK
  <2> QED
    BY <1>1, <1>3, <2>1, SetWRType DEF Read
<1>4. CASE Cpy(i)
  <2>1. [reg EXCEPT ![RegOf(i)] = WR] \in [0..15 -> Host]
    BY <1>1, RegistersType DEF RegOK
  <2> QED
    BY <1>4, <2>1, DoneType DEF Cpy, RegOK
<1>5. CASE Jif(i)
  <2>1. [reg EXCEPT ![PC_REG] = WR] \in [0..15 -> Host]
    BY <1>1, RegistersType DEF RegOK, PC_REG
  <2> QED
    BY <1>1, <1>5, <2>1, DoneType DEF Jif, RegOK
<1>6. CASE Debug(i)
  BY <1>1, <1>6, DoneType DEF Debug, RegOK
<1>7. CASE \E n \in Ints : GetInt(i, n) \/ GetIntStack(i, n)
  <2>1. \A n \in Ints : routine[n] \in Host /\ int_level.routine_stack[n] \in Host
    BY <1>1 DEF RoutineOK, LevelOK
  <2> QED
    BY <1>1, <1>7, <2>1, SetWRType DEF GetInt, GetIntStack
<1> QED
  BY <1>1, <1>2, <1>3, <1>4, <1>5, <1>6, <1>7, AluType, CompareType DEF RegisterInst

-----------------------------------------------------------------------------
(* The interrupts. *)

LEMMA NewIntType ==
    ASSUME TypeInv, NEW i \in Ints, NEW pc \in Host, int_level' = new_int(i, pc)
    PROVE  LevelOK'
<1>1. int_level.level \in Host
  BY Sizes DEF TypeInv, IInv, Shape, LEVEL_NORMAL, Host
<1>2. /\ int_level'.level_stack = [int_level.level_stack EXCEPT ![i] = int_level.level]
      /\ int_level'.routine_stack = [int_level.routine_stack EXCEPT ![i] = pc]
  BY DEF new_int
<1> QED
  BY <1>1, <1>2 DEF TypeInv, Typed, LevelOK

LEMMA LevelAfterType ==
    ASSUME TypeInv, NEW addr, NEW n, int_level' = LevelAfter(addr, n)
    PROVE  LevelOK'
<1>1. (PC - 1) % HostMod \in Host
  BY NextPCType DEF TypeInv, Typed
<1>2. CASE Trap(addr, n)
  <2>1. int_level' = new_int(0, (PC - 1) % HostMod) /\ 0 \in Ints
    BY <1>2 DEF LevelAfter, Ints
  <2> QED
    BY <1>1, <2>1, NewIntType
<1>3. CASE ~Trap(addr, n)
  BY <1>3 DEF LevelAfter, TypeInv, Typed, LevelOK
<1> QED
  BY <1>2, <1>3

LEMMA PCAfterType ==
    ASSUME TypeInv, NEW addr, NEW n
    PROVE  PCInAccess(addr, n) \in Host /\ PCAfter(addr, n) \in Host
<1>1. routine[0] \in Nat /\ PC \in Host
  BY RegistersType DEF TypeInv, Typed, RoutineOK, Ints, Host
<1>2. (routine[0] - 1) % HostMod \in Host
  BY <1>1, Sizes DEF Host
<1>3. PCInAccess(addr, n) \in Host /\ PCInAccess(addr, n) \in Nat
  BY <1>1, <1>2 DEF PCInAccess, Host
<1> QED
  BY <1>3, Sizes DEF PCAfter, Host

-----------------------------------------------------------------------------
(* What is written to stdout. *)

LEMMA MessageType ==
    /\ \A b \in Byte : Character(b) \in Message
    /\ \A pc, wr \in Host : Debugged(pc, wr) \in Message
    /\ \A pc, addr \in Host, n \in Nat : Misaligned(pc, addr, n) \in Message
<1>1. ASSUME NEW pc \in Host, NEW n \in Nat
      PROVE  (pc - 1) % HostMod \in Host /\ n % 256 \in Byte
  BY Sizes DEF Host, Byte
<1> QED
  BY <1>1 DEF Message, Character, Debugged, Misaligned

LEMMA LineType ==
    /\ <<>> \in Seq(Message)
    /\ \A m \in Message : <<m>> \in Seq(Message)
    /\ \A s, t \in Seq(Message) : s \o t \in Seq(Message)
OBVIOUS

LEMMA ReportedType ==
    ASSUME TypeInv, NEW addr \in Host, NEW n \in Nat
    PROVE  Reported(addr, n) \in Seq(Message) /\ ReportedByAtom(addr, n) \in Seq(Message)
<1>1. Misaligned(PC, addr, n) \in Message /\ Misaligned(PCInAccess(addr, n), addr, n) \in Message
  BY MessageType, PCAfterType, RegistersType DEF TypeInv, Typed
<1>2. Reported(addr, n) \in Seq(Message)
  BY <1>1, LineType DEF Reported
<1> QED
  BY <1>1, <1>2, LineType DEF ReportedByAtom


-----------------------------------------------------------------------------
(* Accesses to the RAM. *)

LEMMA ExchangedType ==
    ASSUME RegOK, NEW stack_b, NEW n \in byteExchanged(stack_b)
    PROVE  n \in Nat \ {0}
<1>1. SR \in Nat
  BY RegistersType DEF Host
<1>2. ASSUME NEW k \in Nat
      PROVE  2^k \in Nat \ {0}
  BY PowPositive
<1>3. CASE n \in {WordBytes}
  BY <1>3, Sizes
<1>4. CASE n \in {1}
  BY <1>4
<1>5. CASE \E k \in Nat : n = 2^k
  BY <1>2, <1>5
<1>6. n \in {WordBytes} \/ n \in {1} \/ \E k \in Nat : n = 2^k
  <2> DEFINE reduced == SR \div 2^8
  <2>1. reduced \in Nat /\ (reduced # 0 => reduced - 1 \in Nat)
    BY <1>1
  <2>2. (0..30) \subseteq Nat
    OBVIOUS
  <2> HIDE DEF reduced
  <2>3. \/ n \in {WordBytes} \/ n \in {1}
        \/ reduced # 0 /\ n \in {2^(reduced - 1)}
        \/ n \in {2^k : k \in 0..30}
    <3>1. byteExchanged(stack_b) =
            IF stack_b THEN {WordBytes}
            ELSE IF byte_mode /\ int_level.level = LEVEL_NORMAL THEN {1}
            ELSE IF reduced = 0 THEN {WordBytes}
            ELSE IF reduced < 32 THEN {2^(reduced - 1)}
            ELSE {2^k : k \in 0..30}
      BY Zenon DEF byteExchanged, reduced
    <3> QED
      BY <3>1
  <2> QED
    BY <2>1, <2>2, <2>3
<1> QED
  BY <1>3, <1>4, <1>5, <1>6

LEMMA OffsetType ==
    ASSUME NEW a \in Addresses, NEW addr \in Host
    PROVE  Offset(a, addr) \in 0..(HostMod - 1)
BY Sizes DEF Offset, Addresses, Host

LEMMA ByteType ==
    ASSUME NEW v \in Int
    PROVE  (v % 256) \in Byte
BY DEF Byte

LEMMA PutType ==
    ASSUME RamOK, NEW addr \in Host, NEW n \in Nat \ {0}, NEW content \in Host,
           NEW stored \in putRAMWord(addr, n, content)
    PROVE  stored \in [Addresses -> Byte]
<1>1. PICK period \in IF n > 8 THEN {8, n} ELSE {n} :
         stored = [a \in Addresses |->
                     IF Offset(a, addr) < n
                     THEN ShiftRight(content, 8 * (Offset(a, addr) % period)) % 256
                     ELSE ram[a]]
  BY DEF putRAMWord
<1>2. period \in Nat \ {0}
  OBVIOUS
<1>3. ASSUME NEW a \in Addresses
      PROVE  ShiftRight(content, 8 * (Offset(a, addr) % period)) % 256 \in Byte
  <2>1. 8 * (Offset(a, addr) % period) \in Nat
    BY <1>2, OffsetType
  <2>2. content \in Nat
    BY DEF Host
  <2>3. ShiftRight(content, 8 * (Offset(a, addr) % period)) \in Int
    BY <2>1, <2>2, ShiftType
  <2> QED
    BY <2>3, ByteType
<1> QED
  BY <1>1, <1>3 DEF RamOK

(* The bytes of an access that stays in the RAM, each at its place. *)
Bytes(memory, addr, n) ==
    [k \in {k \in 0..(n - 1) : 8 * k < HostBits} |-> memory[addr + k] * 2^(8 * k)]

LEMMA BytesType ==
    ASSUME NEW memory \in [Addresses -> Byte],
           NEW addr \in Nat, NEW n \in Nat \ {0}, addr + n <= RamSize
    PROVE  SumFunction(Bytes(memory, addr, n)) \in Nat
<1> DEFINE B == Bytes(memory, addr, n)
<1>1. IsFiniteSet(DOMAIN B)
  <2>1. IsFiniteSet(0..(n - 1))
    BY FS_Interval
  <2> QED
    BY <2>1, FS_Subset DEF Bytes
<1>2. ASSUME NEW k \in DOMAIN B
      PROVE  B[k] \in Nat
  <2>1. k \in 0..(n - 1) /\ B[k] = memory[addr + k] * 2^(8 * k)
    BY DEF Bytes
  <2>2. addr + k \in Addresses /\ 8 * k \in Nat
    BY <2>1, Sizes DEF Addresses
  <2>3. memory[addr + k] \in Nat /\ 2^(8 * k) \in Nat
    BY <2>2, PowType DEF Byte
  <2> QED
    BY <2>1, <2>3
<1> HIDE DEF B
<1>3. SumFunctionOnSet(B, DOMAIN B) \in Nat
  BY <1>1, <1>2, SumType
<1> QED
  BY <1>3, Zenon DEF SumFunction, B

LEMMA LoadType ==
    ASSUME RamOK, NEW addr \in Host, NEW n \in Nat \ {0},
           NEW value \in loadWordRAM(addr, n)
    PROVE  value \in Host
<1>1. CASE addr + n > RamSize
  BY <1>1 DEF loadWordRAM
<1>2. CASE ~(addr + n > RamSize)
  <2>1. addr \in Nat /\ addr + n <= RamSize
    BY <1>2, Sizes DEF Host
  <2>2. SumFunction(Bytes(ram, addr, n)) \in Nat
    BY <2>1, BytesType DEF RamOK
  <2>3. value = SumFunction(Bytes(ram, addr, n)) % HostMod
    BY <1>2, Zenon DEF loadWordRAM, Bytes
  <2> QED
    BY <2>2, <2>3, Sizes DEF Host
<1> QED
  BY <1>1, <1>2

(* An instruction that reads or writes the RAM at addr. *)
LEMMA MemoryInstType ==
    ASSUME TypeInv, NEW i \in Byte, MemoryInst(i)
    PROVE  RegOK' /\ RamOK' /\ LevelOK'
<1>1. /\ RegOK /\ RamOK /\ LevelOK /\ RegOf(i) \in 0..15
      /\ WR \in Host /\ SP \in Host /\ reg[RegOf(i)] \in Host
  BY RegOfType, RegistersType DEF TypeInv, Typed, RegOK
<1>2. CASE ExitMemory
  BY <1>1, <1>2 DEF ExitMemory, RegOK, RamOK, LevelOK
<1>3. ASSUME NEW addr, NEW n, int_level' = LevelAfter(addr, n)
      PROVE  LevelOK'
  BY <1>3, LevelAfterType
<1>4. Above(SP) \in Host /\ Below(SP) \in Host
  <2>1. SP + WordBytes \in Int /\ SP - WordBytes \in Int
    BY <1>1, Sizes DEF Host
  <2> QED
    BY <2>1, ModType DEF Above, Below
<1>5. WordBytes \in Nat \ {0}
  BY Sizes
<1>6. NextPC \in Host /\ 1 \in Host
  BY <1>1, NextPCType, Sizes DEF Host
<1>7. CASE Str(i) /\ ~ExitMemory
  <2>1. PICK n \in byteExchanged(FALSE) :
          /\ ram' \in putRAMWord(reg[RegOf(i)], n, WR)
          /\ int_level' = LevelAfter(reg[RegOf(i)], n)
          /\ reg' = [reg EXCEPT ![PC_REG] = PCAfter(reg[RegOf(i)], n)]
    BY <1>7 DEF Str
  <2>2. n \in Nat \ {0} /\ PCAfter(reg[RegOf(i)], n) \in Host
    BY <1>1, ExchangedType, PCAfterType
  <2>3. ram' \in [Addresses -> Byte]
    BY <1>1, <2>1, <2>2, PutType
  <2> QED
    BY <1>1, <1>3, <2>1, <2>2, <2>3 DEF RegOK, RamOK, PC_REG
<1>8. CASE Load(i) /\ ~ExitMemory
  <2>1. PICK n \in byteExchanged(FALSE) :
          /\ \E value \in loadWordRAM(reg[RegOf(i)], n) :
               reg' = [reg EXCEPT ![WR_REG] = value,
                                  ![PC_REG] = PCAfter(reg[RegOf(i)], n)]
          /\ int_level' = LevelAfter(reg[RegOf(i)], n)
          /\ UNCHANGED ram
    BY <1>8 DEF Load
  <2>2. n \in Nat \ {0} /\ PCAfter(reg[RegOf(i)], n) \in Host
    BY <1>1, ExchangedType, PCAfterType
  <2>3. PICK value \in loadWordRAM(reg[RegOf(i)], n) :
               reg' = [reg EXCEPT ![WR_REG] = value,
                                  ![PC_REG] = PCAfter(reg[RegOf(i)], n)]
    BY <2>1
  <2>4. value \in Host
    BY <1>1, <2>2, LoadType
  <2> QED
    BY <1>1, <1>3, <2>1, <2>2, <2>3, <2>4 DEF RegOK, RamOK, PC_REG, WR_REG
<1>9. CASE Atom(i) /\ ~ExitMemory
  <2>1. PICK n \in byteExchanged(FALSE) :
          /\ ram' \in putRAMWord(WR, n, 1)
          /\ int_level' = LevelAfter(WR, n)
          /\ \E value \in loadWordRAM(WR, n) :
               reg' = [WithComp(reg, value = 0) EXCEPT ![PC_REG] = PCAfter(WR, n)]
    BY <1>9 DEF Atom
  <2>2. n \in Nat \ {0} /\ PCAfter(WR, n) \in Host
    BY <1>1, ExchangedType, PCAfterType
  <2>3. ram' \in [Addresses -> Byte]
    BY <1>1, <1>6, <2>1, <2>2, PutType
  <2>4. PICK value \in loadWordRAM(WR, n) :
               reg' = [WithComp(reg, value = 0) EXCEPT ![PC_REG] = PCAfter(WR, n)]
    BY <2>1
  <2>5. WithComp(reg, value = 0) \in [0..15 -> Host]
    BY <1>1, WithCompType
  <2> QED
    BY <1>3, <2>1, <2>2, <2>3, <2>4, <2>5 DEF RegOK, RamOK, PC_REG
<1>10. CASE Push(i) /\ ~ExitMemory
  <2>1. /\ ram' \in putRAMWord(SP, WordBytes, WR)
        /\ int_level' = LevelAfter(SP, WordBytes)
        /\ reg' = [reg EXCEPT ![SP_REG] = Above(SP),
                              ![PC_REG] = PCAfter(SP, WordBytes)]
    BY <1>10 DEF Push
  <2>2. PCAfter(SP, WordBytes) \in Host
    BY PCAfterType
  <2>3. ram' \in [Addresses -> Byte]
    BY <1>1, <1>5, <2>1, PutType
  <2> QED
    BY <1>1, <1>3, <1>4, <2>1, <2>2, <2>3 DEF RegOK, RamOK, PC_REG, SP_REG
<1>11. CASE Pop(i) /\ ~ExitMemory
  <2>1. /\ \E value \in loadWordRAM(Below(SP), WordBytes) :
             reg' = [reg EXCEPT ![SP_REG] = Below(SP),
                                ![WR_REG] = value,
                                ![PC_REG] = PCAfter(Below(SP), WordBytes)]
        /\ int_level' = LevelAfter(Below(SP), WordBytes)
        /\ UNCHANGED ram
    BY <1>11 DEF Pop
  <2>2. PCAfter(Below(SP), WordBytes) \in Host
    BY PCAfterType
  <2>3. PICK value \in loadWordRAM(Below(SP), WordBytes) :
             reg' = [reg EXCEPT ![SP_REG] = Below(SP),
                                ![WR_REG] = value,
                                ![PC_REG] = PCAfter(Below(SP), WordBytes)]
    BY <2>1
  <2>4. value \in Host
    BY <1>1, <1>4, <1>5, LoadType
  <2> QED
    BY <1>1, <1>3, <1>4, <2>1, <2>2, <2>3, <2>4
       DEF RegOK, RamOK, PC_REG, SP_REG, WR_REG
<1>12. CASE Call(i) /\ ~ExitMemory
  <2>1. /\ ram' \in putRAMWord(SP, WordBytes, NextPC)
        /\ int_level' = LevelAfter(SP, WordBytes)
        /\ reg' = [reg EXCEPT ![SP_REG] = Above(SP), ![PC_REG] = WR]
    BY <1>12 DEF Call
  <2>2. ram' \in [Addresses -> Byte]
    BY <1>1, <1>5, <1>6, <2>1, PutType
  <2> QED
    BY <1>1, <1>3, <1>4, <2>1, <2>2 DEF RegOK, RamOK, PC_REG, SP_REG
<1>13. CASE Ret(i) /\ ~ExitMemory
  <2>1. /\ \E value \in loadWordRAM(Below(SP), WordBytes) :
             reg' = [reg EXCEPT ![SP_REG] = Below(SP), ![PC_REG] = value]
        /\ int_level' = LevelAfter(Below(SP), WordBytes)
        /\ UNCHANGED ram
    BY <1>13 DEF Ret
  <2>2. PICK value \in loadWordRAM(Below(SP), WordBytes) :
             reg' = [reg EXCEPT ![SP_REG] = Below(SP), ![PC_REG] = value]
    BY <2>1
  <2>3. value \in Host
    BY <1>1, <1>4, <1>5, LoadType
  <2> QED
    BY <1>1, <1>3, <1>4, <2>1, <2>2, <2>3 DEF RegOK, RamOK, PC_REG, SP_REG
<1> QED
  BY <1>2, <1>7, <1>8, <1>9, <1>10, <1>11, <1>12, <1>13 DEF MemoryInst

(* What an instruction writes to stdout. *)
LEMMA OutType ==
    ASSUME TypeInv, NEW i \in Byte, RegisterInst(i) \/ MemoryInst(i) \/ ModeInst(i)
    PROVE  out' \in Seq(Message)
<1>1. /\ WR \in Host /\ SP \in Host /\ PC \in Host /\ reg[RegOf(i)] \in Host
      /\ Below(SP) \in Host /\ RegOK /\ WordBytes \in Nat
  <2>1. SP \in Nat /\ SP - WordBytes \in Int
    BY RegistersType, Sizes DEF TypeInv, Typed, Host
  <2> QED
    BY <2>1, RegOfType, RegistersType, ModType, Sizes DEF TypeInv, Typed, RegOK, Below
<1>2. CASE RegisterInst(i)
  BY <1>1, <1>2, MessageType, LineType DEF RegisterInst
<1>3. CASE ModeInst(i)
  BY <1>3, LineType DEF ModeInst
<1>4. CASE MemoryInst(i)
  <2>1. \A n \in byteExchanged(FALSE) : n \in Nat
    BY <1>1, ExchangedType
  <2>2. \/ out' = <<>>
        \/ \E addr \in Host, n \in Nat : out' = Reported(addr, n) \/ out' = ReportedByAtom(addr, n)
    BY <1>1, <1>4, <2>1 DEF MemoryInst, Str, Load, Atom, Push, Pop, Call, Ret, ExitMemory
  <2> QED
    BY <2>2, ReportedType, LineType
<1> QED
  BY <1>2, <1>3, <1>4

LEMMA ModeInstType ==
    ASSUME TypeInv, NEW i \in Byte, ModeInst(i)
    PROVE  RegOK' /\ FlagsOK' /\ RoutineOK' /\ LevelOK'
<1>1. /\ RegOK /\ FlagsOK /\ RoutineOK /\ LevelOK /\ WR \in Host
      /\ NextPC \in Host /\ DOMAIN int_level.routine_stack = Ints
      /\ int_level.level \in 0..LEVEL_NORMAL
  BY RegistersType, NextPCType DEF TypeInv, Typed, IInv, Shape
<1>2. CASE Quit(i)
  BY <1>1, <1>2, DoneType DEF Quit, FlagsOK, RoutineOK, LevelOK, RegOK
<1>3. CASE Tbm(i)
  BY <1>1, <1>3, DoneType DEF Tbm, FlagsOK, RoutineOK, LevelOK, RegOK
<1>4. ASSUME NEW n \in Ints, SetInt(i, n)
      PROVE  RegOK' /\ FlagsOK' /\ RoutineOK' /\ LevelOK'
  BY <1>1, <1>4, DoneType DEF SetInt, FlagsOK, RoutineOK, LevelOK, RegOK
<1>5. ASSUME NEW n \in Ints, SetIntStack(i, n)
      PROVE  RegOK' /\ FlagsOK' /\ RoutineOK' /\ LevelOK'
  <2>1. /\ int_level'.routine_stack = [int_level.routine_stack EXCEPT ![n] = WR]
        /\ int_level'.level_stack = int_level.level_stack
    BY <1>5 DEF SetIntStack, TypeInv, IInv, Shape
  <2>2. LevelOK'
    BY <1>1, <2>1 DEF LevelOK
  <2> QED
    BY <1>1, <1>5, <2>2, DoneType DEF SetIntStack, FlagsOK, RoutineOK, RegOK
<1>6. ASSUME NEW n \in Ints, SoftInt(i, n)
      PROVE  RegOK' /\ FlagsOK' /\ RoutineOK' /\ LevelOK'
  <2>1. CASE Accepted(n)
    <3>1. int_level' = new_int(n, NextPC) /\ reg' = [reg EXCEPT ![PC_REG] = routine[n]]
      BY <1>6, <2>1 DEF SoftInt
    <3>2. LevelOK'
      BY <1>1, <3>1, NewIntType
    <3>3. RegOK'
      BY <1>1, <3>1 DEF RegOK, RoutineOK, PC_REG
    <3> QED
      BY <1>1, <1>6, <3>2, <3>3 DEF SoftInt, FlagsOK, RoutineOK
  <2>2. CASE ~Accepted(n)
    BY <1>1, <1>6, <2>2, DoneType DEF SoftInt, FlagsOK, RoutineOK, LevelOK, RegOK
  <2> QED
    BY <2>1, <2>2
<1>7. CASE RetInt(i)
  <2>1. CASE int_level.level # LEVEL_NORMAL
    <3>1. /\ int_level'.level_stack = int_level.level_stack
          /\ int_level'.routine_stack = int_level.routine_stack
          /\ reg' = [reg EXCEPT ![PC_REG] = int_level.routine_stack[int_level.level]]
      BY <1>7, <2>1 DEF RetInt, TypeInv, IInv, Shape
    <3>2. int_level.routine_stack[int_level.level] \in Host
      BY <1>1, <2>1 DEF LevelOK, Ints, LEVEL_NORMAL
    <3> QED
      BY <1>1, <1>7, <3>1, <3>2 DEF RetInt, RegOK, FlagsOK, RoutineOK, LevelOK, PC_REG
  <2>2. CASE int_level.level = LEVEL_NORMAL
    BY <1>1, <1>7, <2>2 DEF RetInt, RegOK, FlagsOK, RoutineOK, LevelOK
  <2> QED
    BY <2>1, <2>2
<1> QED
  BY <1>2, <1>3, <1>4, <1>5, <1>6, <1>7 DEF ModeInst

-----------------------------------------------------------------------------
(* The three steps of a turn, and the theorem. *)

LEMMA CheckIntType ==
    ASSUME TypeInv, CheckInt
    PROVE  Typed'
<1>1. RegOK /\ RamOK /\ FlagsOK /\ RoutineOK /\ TimersOK /\ LevelOK /\ TurnOK
  BY DEF TypeInv, Typed
<1>2. RegOK' /\ LevelOK'
  <2>1. CASE UNCHANGED <<reg, int_level>>
    BY <1>1, <2>1 DEF RegOK, LevelOK
  <2>2. ASSUME NEW i \in Ints,
               int_level' = new_int(i, PC),
               reg' = [reg EXCEPT ![PC_REG] = routine[i]]
        PROVE  RegOK' /\ LevelOK'
    <3>1. PC \in Host /\ routine[i] \in Host
      BY <1>1, RegistersType DEF RoutineOK
    <3> QED
      BY <1>1, <2>2, <3>1, NewIntType DEF RegOK, PC_REG
  <2> QED
    BY <2>1, <2>2 DEF CheckInt
<1>3. TimersOK'
  <2>1. /\ freq \in Timers /\ \A i \in DOMAIN freq : freq[i] \in Int /\ count_up[i] \in Nat
    BY <1>1, SimulatorAssumption DEF TimersOK
  <2>2. UNCHANGED freq /\ RestartTimers
    BY DEF CheckInt
  <2>3. ASSUME NEW i \in DOMAIN freq
        PROVE  count_up'[i] \in Nat /\ (count_up'[i] = 0 \/ count_up'[i] < freq[i])
    <3>1. count_up'[i] = IF i \in Expired THEN 0 ELSE count_up[i] + 1
      BY <2>2 DEF RestartTimers
    <3>2. i \notin Expired => ~(count_up[i] + 1 >= freq[i])
      BY DEF Expired
    <3> QED
      BY <2>1, <3>1, <3>2
  <2>4. DOMAIN count_up' = DOMAIN freq
    BY <2>2 DEF RestartTimers
  <2> QED
    BY <2>1, <2>2, <2>3, <2>4 DEF TimersOK
<1>4. RamOK' /\ FlagsOK' /\ RoutineOK' /\ TurnOK'
  BY <1>1, LineType DEF CheckInt, RamOK, FlagsOK, RoutineOK, TurnOK
<1> QED
  BY <1>2, <1>3, <1>4 DEF Typed

LEMMA RunInstType ==
    ASSUME TypeInv, RunInst
    PROVE  Typed'
<1>1. RegOK /\ RamOK /\ FlagsOK /\ RoutineOK /\ TimersOK /\ LevelOK /\ TurnOK
  BY DEF TypeInv, Typed
<1>2. PICK i \in Fetched : RegisterInst(i) \/ MemoryInst(i) \/ ModeInst(i)
  BY DEF RunInst
<1>3. i \in Byte
  BY <1>1 DEF Fetched, RamOK
<1>4. UNCHANGED <<count_up, freq>>
  BY DEF RunInst
<1>5. TimersOK'
  BY <1>1, <1>4 DEF TimersOK
<1>6. phase' \in {"io", "RET_MEMORY"}
  BY <1>2 DEF RegisterInst, MemoryInst, ModeInst, Str, Load, Atom, Push, Pop, Call,
              Ret, ExitMemory
<1>7. TurnOK'
  BY <1>2, <1>3, <1>6, OutType DEF TurnOK
<1>8. CASE RegisterInst(i)
  <2>1. RegOK'
    BY <1>3, <1>8, RegisterInstType
  <2> QED
    BY <1>1, <1>5, <1>7, <1>8, <2>1
       DEF RegisterInst, Typed, RamOK, FlagsOK, RoutineOK, LevelOK
<1>9. CASE MemoryInst(i)
  <2>1. RegOK' /\ RamOK' /\ LevelOK'
    BY <1>3, <1>9, MemoryInstType
  <2> QED
    BY <1>1, <1>5, <1>7, <1>9, <2>1 DEF MemoryInst, Typed, FlagsOK, RoutineOK
<1>10. CASE ModeInst(i)
  <2>1. RegOK' /\ FlagsOK' /\ RoutineOK' /\ LevelOK'
    BY <1>3, <1>10, ModeInstType
  <2> QED
    BY <1>1, <1>5, <1>7, <1>10, <2>1 DEF ModeInst, Typed, RamOK
<1> QED
  BY <1>2, <1>8, <1>9, <1>10

LEMMA IoType ==
    ASSUME TypeInv, Io
    PROVE  Typed'
<1>1. RegOK /\ RamOK /\ FlagsOK /\ RoutineOK /\ TimersOK /\ LevelOK /\ TurnOK
  BY DEF TypeInv, Typed
<1>2. /\ {TxCmd, TxData, RxCmd, RxData} \subseteq Addresses
      /\ ExtendedIo => {IO_COUT, IO_CIN, IO_CMD, IO_STATUS} \subseteq Addresses
      /\ \A ch \in Stdin : (ch % 256) \in Byte
  <2>1. \A ch \in Stdin : ch \in Int
    BY SimulatorAssumption DEF Byte, EOF
  <2> QED
    BY <2>1, SimulatorAssumption, ByteType
       DEF IO_COUT, IO_CIN, IO_CMD, IO_STATUS, Addresses
<1>3. CASE basic_io
  <2> DEFINE sent == IF ram[TxCmd] = 0 THEN [ram EXCEPT ![TxCmd] = 65] ELSE ram
  <2>1. sent \in [Addresses -> Byte]
    BY <1>1, <1>2 DEF RamOK, Byte
  <2>2. \/ ram' = sent
        \/ \E ch \in Stdin : ram' = [sent EXCEPT ![RxData] = ch % 256,
                                                 ![RxCmd] = IF ch = EOF THEN 2 ELSE 1]
    BY <1>3 DEF basic_io
  <2> HIDE DEF sent
  <2>3. RamOK'
    <3>1. ASSUME NEW ch \in Stdin,
                 ram' = [sent EXCEPT ![RxData] = ch % 256,
                                     ![RxCmd] = IF ch = EOF THEN 2 ELSE 1]
          PROVE  RamOK'
      <4>1. (ch % 256) \in Byte /\ (IF ch = EOF THEN 2 ELSE 1) \in Byte
        BY <1>2 DEF Byte
      <4> QED
        BY <1>2, <2>1, <3>1, <4>1 DEF RamOK
    <3> QED
      BY <2>1, <2>2, <3>1 DEF RamOK
  <2>4. out' \in Seq(Message)
    <3>1. Character(ram[TxData]) \in Message
      BY <1>1, <1>2, MessageType DEF RamOK
    <3> QED
      BY <1>3, <3>1, LineType DEF basic_io, Printed
  <2> QED
    BY <2>3, <2>4, <1>1 DEF Io, Typed, RegOK, FlagsOK, RoutineOK, TimersOK, LevelOK, TurnOK
<1>4. CASE ExtendedIo /\ extended_io
  <2>1. RamOK'
    <3>1. ASSUME NEW ch \in Stdin,
                 ram' = [ram EXCEPT ![IO_CIN] = ch % 256,
                                    ![IO_STATUS] = IF ch = EOF THEN 1 ELSE 0,
                                    ![IO_CMD] = IO_NOP]
          PROVE  RamOK'
      <4>1. (ch % 256) \in Byte /\ (IF ch = EOF THEN 1 ELSE 0) \in Byte /\ IO_NOP \in Byte
        BY <1>2 DEF Byte, IO_NOP
      <4> QED
        BY <1>1, <1>2, <1>4, <3>1, <4>1 DEF RamOK
    <3>2. ASSUME ram' = [ram EXCEPT ![IO_CMD] = IO_NOP]
          PROVE  RamOK'
      BY <1>1, <1>2, <1>4, <3>2 DEF RamOK, IO_NOP, Byte
    <3> QED
      BY <1>4, <3>1, <3>2 DEF extended_io
  <2>2. out' \in Seq(Message)
    <3>1. Character(ram[IO_COUT]) \in Message
      BY <1>1, <1>2, <1>4, MessageType DEF RamOK
    <3> QED
      BY <1>4, <3>1, LineType DEF extended_io, Printed
  <2> QED
    BY <2>1, <2>2, <1>1 DEF Io, Typed, RegOK, FlagsOK, RoutineOK, TimersOK, LevelOK, TurnOK
<1> QED
  BY <1>3, <1>4 DEF Io

LEMMA InitTypeInv == Init => TypeInv
<1> SUFFICES ASSUME Init PROVE Typed
  BY InitIInv DEF TypeInv
<1>1. RegOK
  BY Sizes DEF Init, RegOK, Host, START_CHAR
<1>2. RamOK
  <2>1. PICK image \in Images : ram = prepare_extended_io(image)
    BY DEF Init
  <2>2. image \in [Addresses -> Byte]
    BY SimulatorAssumption
  <2>3. CASE ExtendedIo
    <3>1. ram = [image EXCEPT ![IO_CMD] = 0]
      BY <2>1, <2>3 DEF prepare_extended_io, IO_NOP
    <3>2. 0 \in Byte
      BY DEF Byte
    <3> QED
      BY <2>2, <3>1, <3>2 DEF RamOK
  <2> QED
    BY <2>1, <2>2, <2>3 DEF RamOK, prepare_extended_io
<1>3. LevelOK
  <2>1. /\ int_level.level_stack \in [Ints -> Garbage]
        /\ int_level.routine_stack \in [Ints -> Garbage]
    BY DEF Init
  <2> QED
    BY <2>1, SimulatorAssumption DEF LevelOK
<1>4. FlagsOK /\ TurnOK /\ RoutineOK
  <2>1. FlagsOK
    BY DEF Init, FlagsOK
  <2>2. TurnOK
    BY LineType DEF Init, TurnOK
  <2>3. RoutineOK
    BY Sizes DEF Init, RoutineOK, Host
  <2> QED
    BY <2>1, <2>2, <2>3
<1>5. TimersOK
  BY DEF Init, TimersOK
<1> QED
  BY <1>1, <1>2, <1>3, <1>4, <1>5 DEF Typed

LEMMA StepTypeInv ==
    ASSUME TypeInv, [Next]_vars
    PROVE  TypeInv'
<1>1. IInv'
  BY StepIInv DEF TypeInv
<1>2. CASE UNCHANGED vars
  BY <1>1, <1>2 DEF vars, TypeInv, Typed, RegOK, RamOK, FlagsOK, RoutineOK, TimersOK,
                    LevelOK, TurnOK
<1>3. CASE CheckInt \/ RunInst \/ Io
  BY <1>1, <1>3, CheckIntType, RunInstType, IoType DEF TypeInv
<1> QED
  BY <1>2, <1>3 DEF Next, Ended

LEMMA TypeInvariance == Spec => []TypeInv
<1>1. TypeInv /\ [Next]_vars => TypeInv'
  BY StepTypeInv
<1> QED
  BY InitTypeInv, <1>1, PTL DEF Spec

(* Every register of the simulator stays a word_t, every cell of its RAM a *)
(* byte and every counter of a timer below its period, whatever bytes the  *)
(* program executes.                                                       *)
THEOREM SimulatorTypes == Spec => []TypeOK
BY TypeInvariance, TypeInvTypeOK, PTL

-----------------------------------------------------------------------------
(* What is stored is what is loaded.                                       *)

(* The sizes of an access are powers of two, and of those that do not fit  *)
(* a byte the low eight bits are zero.                                     *)
LEMMA PowerOf2 ==
    ASSUME NEW k \in Nat
    PROVE  /\ 2^k \in Nat \ {0} /\ (2^k % 256 = 0 \/ 2^k < 256)
           /\ 2^k < HostMod => 2 * 2^k <= HostMod
<1>1. 2^k \in Nat \ {0} /\ HostBits \in Nat \ {0}
  BY PowPositive, Sizes
<1>2. ASSUME k <= 7
      PROVE  2^k < 256
  <2>1. 2^k <= 2^7
    BY <1>2, PowMonotone
  <2> QED
    BY <1>1, <2>1
<1>3. ASSUME k >= 8
      PROVE  2^k % 256 = 0
  <2>1. k - 8 \in Nat /\ 8 + (k - 8) = k
    BY <1>3
  <2>2. 2^k = 2^8 * 2^(k - 8) /\ 2^(k - 8) \in Nat
    BY <2>1, PowAdd, PowType
  <2>3. ASSUME NEW q \in Nat
        PROVE  (256 * q) % 256 = 0
    OBVIOUS
  <2>4. 2^k = 256 * 2^(k - 8)
    BY <2>2
  <2> QED
    BY <2>2, <2>3, <2>4
<1>4. 2^k % 256 = 0 \/ 2^k < 256
  BY <1>2, <1>3
<1>5. ASSUME 2^k < HostMod
      PROVE  2 * 2^k <= HostMod
  <2>1. ~(HostBits <= k)
    <3>1. HostBits <= k => 2^HostBits <= 2^k
      BY <1>1, PowMonotone
    <3> QED
      BY <1>1, <1>5, <3>1, Sizes DEF HostMod
  <2>2. k + 1 \in Nat /\ k + 1 <= HostBits
    BY <1>1, <2>1
  <2>3. 2^(k + 1) <= 2^HostBits /\ 2^(k + 1) = 2 * 2^k
    BY <1>1, <2>2, PowMonotone, PowStep
  <2> QED
    BY <2>3 DEF HostMod
<1> QED
  BY <1>1, <1>4, <1>5

LEMMA ExchangedPower ==
    ASSUME RegOK, NEW n \in byteExchanged(FALSE) \cup {WordBytes}
    PROVE  \E k \in Nat : n = 2^k
<1>1. SR \in Nat
  BY RegistersType DEF Host
<1>2. WordBytes \in {2^0, 2^1, 2^2, 2^3} /\ 1 = 2^0
  BY SimulatorAssumption
<1> DEFINE reduced == SR \div 2^8
<1>3. reduced \in Nat /\ (reduced # 0 => reduced - 1 \in Nat) /\ (0..30) \subseteq Nat
  BY <1>1
<1> HIDE DEF reduced
<1>4. byteExchanged(FALSE) =
        IF byte_mode /\ int_level.level = LEVEL_NORMAL THEN {1}
        ELSE IF reduced = 0 THEN {WordBytes}
        ELSE IF reduced < 32 THEN {2^(reduced - 1)}
        ELSE {2^k : k \in 0..30}
  BY Zenon DEF byteExchanged, reduced
<1>5. \/ n = WordBytes \/ n = 1
      \/ reduced # 0 /\ n = 2^(reduced - 1)
      \/ \E k \in 0..30 : n = 2^k
  BY <1>4
<1>6. CASE n = WordBytes \/ n = 1
  <2>1. n \in {2^0, 2^1, 2^2, 2^3}
    BY <1>2, <1>6
  <2>2. 0 \in Nat /\ 1 \in Nat /\ 2 \in Nat /\ 3 \in Nat
    OBVIOUS
  <2> QED
    BY <2>1, <2>2, Zenon
<1> QED
  BY <1>3, <1>5, <1>6, Zenon

(* An access to an address of the RAM that passes check_access_valid is    *)
(* inside of the RAM, where the addresses of the host are twice those of   *)
(* the RAM or more.                                                        *)
LEMMA NoWrap ==
    ASSUME 2 * RamSize <= HostMod, RegOK,
           NEW addr \in Addresses, NEW n \in byteExchanged(FALSE) \cup {WordBytes},
           AccessValid(addr, n)
    PROVE  n \in Nat \ {0} /\ addr + n <= RamSize
<1>1. PICK k \in Nat : n = 2^k
  BY ExchangedPower
<1>2. n \in Nat \ {0} /\ 2 * n <= HostMod
  BY <1>1, PowerOf2 DEF AccessValid
<1>3. addr + n \in 0..(HostMod - 1)
  BY <1>2, Sizes DEF Addresses
<1>4. ((addr + n) % HostMod) = addr + n
  BY <1>3, Sizes
<1> QED
  BY <1>2, <1>4 DEF AccessValid

LEMMA StoredLoads ==
    ASSUME RamOK, RamOK',
           NEW addr \in Addresses, NEW n \in Nat \ {0}, NEW content \in Host,
           addr + n <= RamSize, ram' \in putRAMWord(addr, n, content)
    PROVE  /\ loadWordRAM(addr, n)' = {IF 8 * n < HostBits THEN content % 2^(8 * n) ELSE content}
           /\ \A a \in Addresses \ (addr..(addr + n - 1)) : ram'[a] = ram[a]
<1> DEFINE B == Bytes(ram', addr, n)
           held == {k \in 0..(n - 1) : 8 * k < HostBits}
<1>1. /\ addr \in Nat /\ addr \in Host /\ content \in Nat /\ content < HostMod
      /\ HostBits \in 1..64
  BY Sizes, HostBitsAssumption DEF Addresses, Host
<1>2. PICK period \in IF n > 8 THEN {8, n} ELSE {n} :
         ram' = [a \in Addresses |->
                   IF Offset(a, addr) < n
                   THEN ShiftRight(content, 8 * (Offset(a, addr) % period)) % 256
                   ELSE ram[a]]
  BY DEF putRAMWord
<1>3. ASSUME NEW k \in held
      PROVE  B[k] = ((content \div 2^(8 * k)) % 256) * 2^(8 * k)
  <2>1. /\ k \in 0..(n - 1) /\ addr + k \in Addresses /\ k < n
        /\ 8 * k \in Nat /\ 8 * k < HostBits /\ k < 8
    BY <1>1, Sizes DEF Addresses
  <2>2. Offset(addr + k, addr) = k
    <3>1. (addr + k) - addr = k /\ k \in 0..(HostMod - 1)
      BY <1>1, <2>1, Sizes
    <3>2. (k % HostMod) = k
      BY <3>1, Sizes
    <3> QED
      BY <3>1, <3>2 DEF Offset
  <2>3. (k % period) = k
    <3>1. period \in Nat \ {0} /\ k < period
      BY <2>1
    <3> QED
      BY <2>1, <3>1
  <2>4. ram'[addr + k] = ShiftRight(content, 8 * k) % 256
    BY <1>2, <2>1, <2>2, <2>3
  <2>5. ShiftRight(content, 8 * k) = content \div 2^(8 * k)
    BY <1>1, <2>1, Sizes DEF ShiftRight
  <2>6. B[k] = ram'[addr + k] * 2^(8 * k)
    BY <2>1 DEF Bytes
  <2> QED
    BY <2>4, <2>5, <2>6
<1>4. DOMAIN B = held
  BY DEF Bytes
<1>5. loadWordRAM(addr, n)' = {SumFunction(B) % HostMod}
  <2>1. ~(addr + n > RamSize)
    BY <1>1, Sizes
  <2> QED
    BY <2>1, Zenon DEF loadWordRAM, Bytes
<1> HIDE DEF B
<1>6. ASSUME NEW m \in Nat, held = 0..(m - 1)
      PROVE  SumFunction(B) = (content % 2^(8 * m))
  <2>1. \A k \in 0..(m - 1) : B[k] = ((content \div 2^(8 * k)) % 256) * 2^(8 * k)
    BY <1>3, <1>6
  <2>2. SumFunctionOnSet(B, 0..(m - 1)) = (content % 2^(8 * m))
    BY <1>1, <2>1, SumOfBytes
  <2> QED
    BY <1>4, <1>6, <2>2, Zenon DEF SumFunction
<1>7. ASSUME NEW m \in Nat, 8 * m < HostBits
      PROVE  (content % 2^(8 * m)) % HostMod = content % 2^(8 * m)
  <2>1. 8 * m \in Nat
    OBVIOUS
  <2>2. 2^(8 * m) \in Nat \ {0} /\ 2^(8 * m) <= HostMod
    BY <1>1, <1>7, <2>1, PowPositive, PowMonotone, Sizes DEF HostMod
  <2>3. (content % 2^(8 * m)) \in 0..(2^(8 * m) - 1)
    BY <1>1, <2>2, DivMod
  <2> QED
    BY <2>2, <2>3, Sizes
<1>8. ASSUME NEW m \in Nat, HostBits <= 8 * m
      PROVE  content % 2^(8 * m) = content /\ content % HostMod = content
  <2>1. 8 * m \in Nat
    OBVIOUS
  <2>2. 2^(8 * m) \in Nat \ {0} /\ HostMod <= 2^(8 * m)
    BY <1>1, <1>8, <2>1, PowPositive, PowMonotone, Sizes DEF HostMod
  <2>3. content \in 0..(2^(8 * m) - 1) /\ content \in 0..(HostMod - 1)
    BY <1>1, <2>2, Sizes
  <2> QED
    BY <2>2, <2>3, Sizes
<1>9. ASSUME 8 * n < HostBits
      PROVE  loadWordRAM(addr, n)' = {content % 2^(8 * n)}
  <2>1. held = 0..(n - 1)
    BY <1>1, <1>9
  <2>2. n \in Nat
    OBVIOUS
  <2>3. SumFunction(B) = (content % 2^(8 * n))
    BY <1>6, <2>1, <2>2
  <2> QED
    BY <1>5, <1>7, <1>9, <2>2, <2>3
<1>10. ASSUME HostBits <= 8 * n
       PROVE  loadWordRAM(addr, n)' = {content}
  <2> DEFINE m == (HostBits + 7) \div 8
  <2>1. m \in Nat /\ HostBits <= 8 * m /\ 8 * (m - 1) < HostBits /\ m <= n
    BY <1>1, <1>10
  <2> HIDE DEF m
  <2>2. held = 0..(m - 1)
    BY <1>1, <2>1
  <2>3. SumFunction(B) = (content % 2^(8 * m))
    BY <1>6, <2>1, <2>2
  <2>4. ~(8 * n < HostBits)
    BY <1>1, <1>10
  <2> QED
    BY <1>5, <1>8, <2>1, <2>3, <2>4
<1>11. ASSUME NEW a \in Addresses \ (addr..(addr + n - 1))
       PROVE  ram'[a] = ram[a]
  <2>1. ~(Offset(a, addr) < n)
    <3>1. CASE a < addr
      <4>1. /\ a \in Nat /\ a < RamSize /\ addr < RamSize /\ RamSize <= HostMod
            /\ (a - addr) + HostMod \in 0..(HostMod - 1)
        BY <1>1, <3>1, Sizes DEF Addresses
      <4>2. (a - addr) % HostMod = (a - addr) + HostMod
        BY <1>1, <3>1, <4>1, Sizes
      <4>3. (a - addr) + HostMod >= n
        BY <1>1, <3>1, <4>1, Sizes
      <4> QED
        BY <1>1, <4>1, <4>2, <4>3, Sizes DEF Offset
    <3>2. CASE a >= addr
      <4>1. a \in Nat /\ a - addr \in 0..(HostMod - 1) /\ a - addr >= n
        BY <1>1, <3>2, Sizes DEF Addresses
      <4>2. (a - addr) % HostMod = a - addr
        BY <4>1, Sizes
      <4> QED
        BY <4>1, <4>2 DEF Offset
    <3> QED
      BY <1>1, <3>1, <3>2 DEF Addresses
  <2> QED
    BY <1>2, <2>1
<1>12. 8 * n < HostBits \/ HostBits <= 8 * n
  BY <1>1
<1> QED
  BY <1>9, <1>10, <1>11, <1>12

(* A word of the machine is stored whole. *)
LEMMA WordStored ==
    ASSUME RamOK, RamOK', NEW addr \in Addresses, NEW content \in Host,
           addr + WordBytes <= RamSize, ram' \in putRAMWord(addr, WordBytes, content)
    PROVE  loadWordRAM(addr, WordBytes)' = {content % WordMod}
<1>1. /\ WordBytes \in Nat \ {0} /\ WordMod = 2^(8 * WordBytes) /\ 8 * WordBytes <= HostBits
      /\ HostBits \in Nat /\ content \in 0..(HostMod - 1)
  BY Sizes, SimulatorAssumption DEF WordMod, WordBits, Host
<1>2. loadWordRAM(addr, WordBytes)' =
        {IF 8 * WordBytes < HostBits THEN content % 2^(8 * WordBytes) ELSE content}
  BY <1>1, StoredLoads
<1>3. CASE 8 * WordBytes < HostBits
  BY <1>1, <1>2, <1>3
<1>4. CASE 8 * WordBytes = HostBits
  <2>1. WordMod = HostMod /\ ~(8 * WordBytes < HostBits)
    BY <1>1, <1>4 DEF HostMod
  <2>2. content % HostMod = content
    BY <1>1, Sizes
  <2> QED
    BY <1>2, <2>1, <2>2
<1> QED
  BY <1>1, <1>3, <1>4

(* What check_alignement_ok does leaves the size of the access as it was:  *)
(* the byte mode counts outside of the interrupts only, but a byte is      *)
(* never misaligned.  The loops of loadWordRAM and putRAMWord, which ask   *)
(* for the size again, go on with the size that was checked.               *)
LEMMA SizeIsKept ==
    ASSUME TypeInv, NEW addr \in Host, NEW n \in byteExchanged(FALSE),
           int_level' = LevelAfter(addr, n), UNCHANGED byte_mode, SR' = SR
    PROVE  byteExchanged(FALSE)' = byteExchanged(FALSE)
<1>1. CASE Trap(addr, n)
  <2>1. int_level'.level = 0
    BY <1>1 DEF LevelAfter, new_int
  <2>2. n # 1
    <3>1. AlignmentOk(addr, 1)
      <4>1. addr \in Nat /\ addr % 1 = 0 /\ 1 % 256 = 1
        BY DEF Host
      <4> QED
        BY <4>1 DEF AlignmentOk
    <3> QED
      BY <1>1, <3>1 DEF Trap
  <2>3. ~(byte_mode /\ int_level.level = LEVEL_NORMAL)
    BY <2>2 DEF byteExchanged
  <2>4. ~(byte_mode' /\ int_level'.level = LEVEL_NORMAL)
    BY <2>1 DEF LEVEL_NORMAL
  <2> QED
    BY <2>3, <2>4 DEF byteExchanged
<1>2. CASE ~Trap(addr, n)
  BY <1>2 DEF LevelAfter, byteExchanged
<1> QED
  BY <1>1, <1>2

(* The action that a fetched byte is: one byte is one instruction.         *)
LEMMA Decoded ==
    ASSUME TypeInv, [Next]_vars, phase' = "io", NEW op, Executes(op)
    PROVE  /\ ram[PC] \in Byte
           /\ op \in {STR, LOAD, ATOM, PUSH, POP, CALL} => MemoryInst(ram[PC])
           /\ op = STR  => Str(ram[PC])
           /\ op = LOAD => Load(ram[PC])
           /\ op = ATOM => Atom(ram[PC])
           /\ op = PUSH => Push(ram[PC])
           /\ op = POP  => Pop(ram[PC])
           /\ op = CALL => Call(ram[PC])
<1> DEFINE i == ram[PC]
<1>1. phase = "run_inst" /\ PC \in Addresses /\ op = IF i < JIF THEN Opperand(i) ELSE i
  BY DEF Executes
<1>2. i \in Byte
  BY <1>1 DEF TypeInv, Typed, RamOK
<1>3. RegisterInst(i) \/ MemoryInst(i) \/ ModeInst(i)
  <2>1. RunInst
    BY <1>1 DEF Next, CheckInt, Io, Ended, vars
  <2>2. Fetched = {i}
    BY <1>1 DEF Fetched
  <2> HIDE DEF i
  <2> QED
    BY <2>1, <2>2 DEF RunInst
<1> HIDE DEF i
<1>4. op \in {STR, LOAD, ATOM, PUSH, POP, CALL} =>
         MemoryInst(i) /\ (op \in {STR, LOAD} => Opperand(i) = op) /\ (op \in {ATOM, PUSH, POP, CALL} => i = op)
  <2> SUFFICES ASSUME op \in {STR, LOAD, ATOM, PUSH, POP, CALL}
      PROVE MemoryInst(i) /\ (op \in {STR, LOAD} => Opperand(i) = op) /\ (op \in {ATOM, PUSH, POP, CALL} => i = op)
    OBVIOUS
  <2>1. /\ op \in {STR, LOAD} => Opperand(i) = op
        /\ op \in {ATOM, PUSH, POP, CALL} => i = op
    BY <1>1, <1>2 DEF Byte, Opperand, JIF, STR, LOAD, ATOM, PUSH, POP, CALL
  <2>2. ~RegisterInst(i)
    BY <1>2, <2>1 DEF RegisterInst, Set, Read, Cpy, Alu, Compare, Jif, Debug, GetInt,
       GetIntStack, Ints, Byte, Opperand, JIF, STR, LOAD, ATOM, PUSH, POP, CALL, SET, READ,
       CPY, ADD, AND, OR, XOR, NOT, LSL, LSR, EQ, LES, CC2, CMPNOT, DEBUG, GETINT,
       GETINTSTACK
  <2>3. ~ModeInst(i)
    BY <1>2, <2>1 DEF ModeInst, Quit, Tbm, SetInt, SetIntStack, SoftInt, RetInt, Ints, Byte,
       Opperand, STR, LOAD, ATOM, PUSH, POP, CALL, QUIT, TBM, RETINT, SETINT,
       SETINTSTACK, SOFTINT
  <2> QED
    BY <1>3, <2>1, <2>2, <2>3
<1>5. MemoryInst(i) =>
        /\ Opperand(i) = STR => Str(i)
        /\ Opperand(i) = LOAD => Load(i)
        /\ i = ATOM => Atom(i)
        /\ i = PUSH => Push(i)
        /\ i = POP => Pop(i)
        /\ i = CALL => Call(i)
  <2>1. /\ (Str(i) => Opperand(i) = STR) /\ (Load(i) => Opperand(i) = LOAD)
        /\ (Atom(i) => i = ATOM) /\ (Push(i) => i = PUSH) /\ (Pop(i) => i = POP)
        /\ (Call(i) => i = CALL) /\ (Ret(i) => i = RET)
    BY DEF Str, Load, Atom, Push, Pop, Call, Ret
  <2>2. MemoryInst(i) =>
          Str(i) \/ Load(i) \/ Atom(i) \/ Push(i) \/ Pop(i) \/ Call(i) \/ Ret(i)
    BY DEF MemoryInst
  <2> QED
    BY <1>2, <2>1, <2>2 DEF Byte, Opperand, STR, LOAD, ATOM, PUSH, POP, CALL, RET
<1> QED
  BY <1>2, <1>4, <1>5 DEF i

(* The memory properties of a step. *)
LEMMA StoreStep ==
    ASSUME 2 * RamSize <= HostMod, TypeInv, [Next]_vars
    PROVE  Executes(STR) /\ phase' = "io" =>
             \A addr \in Addresses : addr = Argument =>
               \E n \in byteExchanged(FALSE) :
                 /\ addr + n <= RamSize
                 /\ loadWordRAM(addr, n)' = {IF 8 * n < HostBits THEN WR % 2^(8 * n) ELSE WR}
                 /\ \A a \in Addresses \ (addr..(addr + n - 1)) : ram'[a] = ram[a]
<1> SUFFICES ASSUME Executes(STR), phase' = "io", NEW addr \in Addresses, addr = Argument
    PROVE  \E n \in byteExchanged(FALSE) :
             /\ addr + n <= RamSize
             /\ loadWordRAM(addr, n)' = {IF 8 * n < HostBits THEN WR % 2^(8 * n) ELSE WR}
             /\ \A a \in Addresses \ (addr..(addr + n - 1)) : ram'[a] = ram[a]
  OBVIOUS
<1>1. Str(ram[PC])
  BY Decoded
<1>2. PICK n \in byteExchanged(FALSE) : AccessValid(addr, n) /\ ram' \in putRAMWord(addr, n, WR)
  BY <1>1 DEF Str, ExitMemory, Argument
<1>3. RamOK /\ RamOK' /\ RegOK /\ WR \in Host
  BY StepTypeInv, RegistersType DEF TypeInv, Typed
<1>4. n \in Nat \ {0} /\ addr + n <= RamSize
  BY <1>2, <1>3, NoWrap
<1>5. /\ loadWordRAM(addr, n)' = {IF 8 * n < HostBits THEN WR % 2^(8 * n) ELSE WR}
      /\ \A a \in Addresses \ (addr..(addr + n - 1)) : ram'[a] = ram[a]
  BY <1>2, <1>3, <1>4, StoredLoads
<1> QED
  BY <1>4, <1>5

LEMMA TrapStep ==
    ASSUME TypeInv, [Next]_vars
    PROVE  ToTrap /\ phase' = "io" =>
             /\ PC' = routine[0] /\ UNCHANGED routine
             /\ int_level'.level = 0 /\ int_level'.level_stack[0] = int_level.level
<1> SUFFICES ASSUME ToTrap, phase' = "io"
    PROVE  /\ PC' = routine[0] /\ UNCHANGED routine
           /\ int_level'.level = 0 /\ int_level'.level_stack[0] = int_level.level
  OBVIOUS
<1>0. PICK addr \in Addresses, n \in byteExchanged(FALSE) \cup {WordBytes} :
         DataAccess(addr, n) /\ addr % n # 0
  BY DEF ToTrap
<1>1. Trap(addr, n)
  <2>1. PICK k \in Nat : n = 2^k
    BY ExchangedPower DEF TypeInv, Typed
  <2>2. n \in Nat \ {0} /\ (n % 256 = 0 \/ n < 256)
    BY <2>1, PowerOf2
  <2>3. addr # 0
    BY <1>0, <2>2
  <2>4. n % 256 # 0 => n % 256 = n
    BY <2>2
  <2>5. ~AlignmentOk(addr, n)
    BY <1>0, <2>3, <2>4 DEF AlignmentOk
  <2> QED
    BY <2>5 DEF Trap, ToTrap, enabled_int
<1>2. PCAfter(addr, n) = routine[0] /\ LevelAfter(addr, n) = new_int(0, (PC - 1) % HostMod)
  <2>1. PCInAccess(addr, n) = (routine[0] - 1) % HostMod
    BY <1>1 DEF PCInAccess
  <2>2. routine[0] \in 0..(HostMod - 1)
    BY DEF TypeInv, Typed, RoutineOK, Ints, Host
  <2>3. (((routine[0] - 1) % HostMod) + 1) % HostMod = routine[0]
    <3>1. CASE routine[0] = 0
      <4>1. (0 - 1) % HostMod = HostMod - 1 /\ HostMod % HostMod = 0 /\ (HostMod - 1) + 1 = HostMod
        BY Sizes
      <4> QED
        BY <3>1, <4>1
    <3>2. CASE routine[0] # 0
      <4>1. routine[0] - 1 \in 0..(HostMod - 1)
        BY <2>2, <3>2, Sizes
      <4>2. (routine[0] - 1) % HostMod = routine[0] - 1 /\ routine[0] % HostMod = routine[0]
        BY <2>2, <4>1, Sizes
      <4> QED
        BY <2>2, <4>2
    <3> QED
      BY <3>1, <3>2
  <2>4. PCAfter(addr, n) = routine[0]
    BY <2>1, <2>3 DEF PCAfter
  <2> QED
    BY <1>1, <2>4 DEF LevelAfter
<1>3. DOMAIN reg = 0..15 /\ \A b : DOMAIN WithComp(reg, b) = 0..15
  BY DEF TypeInv, IInv, Shape, WithComp
<1>4. PC' = PCAfter(addr, n) /\ int_level' = LevelAfter(addr, n)
  <2>1. CASE Executes(STR) /\ addr = Argument /\ byteExchanged(FALSE) = {n}
    <3>1. Str(ram[PC])
      BY <2>1, Decoded
    <3>2. PICK m \in byteExchanged(FALSE) :
             /\ int_level' = LevelAfter(addr, m)
             /\ reg' = [reg EXCEPT ![PC_REG] = PCAfter(addr, m)]
      BY <2>1, <3>1 DEF Str, ExitMemory, Argument
    <3>3. m = n
      BY <2>1
    <3> QED
      BY <1>3, <3>2, <3>3 DEF PC, PC_REG
  <2>2. CASE Executes(LOAD) /\ addr = Argument /\ byteExchanged(FALSE) = {n}
    <3>1. Load(ram[PC])
      BY <2>2, Decoded
    <3>2. PICK m \in byteExchanged(FALSE) :
             /\ int_level' = LevelAfter(addr, m)
             /\ \E value : reg' = [reg EXCEPT ![WR_REG] = value,
                                             ![PC_REG] = PCAfter(addr, m)]
      BY <2>2, <3>1 DEF Load, ExitMemory, Argument
    <3>3. m = n
      BY <2>2
    <3> QED
      BY <1>3, <3>2, <3>3 DEF PC, PC_REG, WR_REG
  <2>3. CASE Executes(ATOM) /\ addr = WR /\ byteExchanged(FALSE) = {n}
    <3>1. Atom(ram[PC])
      BY <2>3, Decoded
    <3>2. /\ int_level' = LevelAfter(addr, n)
          /\ \E value : reg' = [WithComp(reg, value = 0) EXCEPT ![PC_REG] = PCAfter(addr, n)]
      BY <2>3, <3>1 DEF Atom, ExitMemory
    <3> QED
      BY <1>3, <3>2 DEF PC, PC_REG
  <2>4. CASE Executes(PUSH) /\ addr = SP /\ n = WordBytes
    <3>1. Push(ram[PC])
      BY <2>4, Decoded
    <3> QED
      BY <1>3, <2>4, <3>1 DEF Push, ExitMemory, PC, PC_REG, SP_REG
  <2>5. CASE Executes(POP) /\ addr = Below(SP) /\ n = WordBytes
    <3>1. Pop(ram[PC])
      BY <2>5, Decoded
    <3> QED
      BY <1>3, <2>5, <3>1 DEF Pop, ExitMemory, PC, PC_REG, SP_REG, WR_REG
  <2> QED
    BY <1>0, <2>1, <2>2, <2>3, <2>4, <2>5 DEF DataAccess
<1>5. UNCHANGED routine
  <2>1. \E op \in {STR, LOAD, ATOM, PUSH, POP} : Executes(op)
    BY <1>0 DEF DataAccess
  <2>2. MemoryInst(ram[PC])
    BY <2>1, Decoded
  <2> QED
    BY <2>2 DEF MemoryInst
<1>6. int_level' = new_int(0, (PC - 1) % HostMod)
  BY <1>2, <1>4
<1>7. DOMAIN int_level.level_stack = Ints /\ 0 \in Ints
  BY DEF TypeInv, IInv, Shape, Ints
<1> QED
  BY <1>2, <1>4, <1>5, <1>6, <1>7 DEF new_int

LEMMA StackStep ==
    ASSUME RamSize + WordBytes <= WordMod, 2 * RamSize <= HostMod, TypeInv, [Next]_vars
    PROVE  \A sp \in Addresses :
             sp = SP /\ phase' = "io" =>
               /\ Executes(PUSH) => Below(SP') = sp /\ loadWordRAM(sp, WordBytes)' = {WR % WordMod}
               /\ Executes(CALL) => Below(SP') = sp /\ loadWordRAM(sp, WordBytes)' = {NextPC}
<1> SUFFICES ASSUME NEW sp \in Addresses, sp = SP, phase' = "io"
    PROVE  /\ Executes(PUSH) => Below(SP') = sp /\ loadWordRAM(sp, WordBytes)' = {WR % WordMod}
           /\ Executes(CALL) => Below(SP') = sp /\ loadWordRAM(sp, WordBytes)' = {NextPC}
  OBVIOUS
<1>1. RamSize + WordBytes <= HostMod
  BY Sizes
<1>2. RamOK /\ RamOK' /\ RegOK /\ WR \in Host /\ NextPC \in Host /\ DOMAIN reg = 0..15
  BY StepTypeInv, RegistersType, NextPCType DEF TypeInv, Typed, IInv, Shape
<1>3. ASSUME AccessValid(sp, WordBytes)
      PROVE  Below(Above(sp)) = sp /\ sp + WordBytes <= RamSize
  <2>0. sp + WordBytes <= RamSize
    BY <1>2, <1>3, NoWrap
  <2>1. sp + WordBytes \in 0..(WordMod - 1) /\ sp \in 0..(WordMod - 1)
    BY <2>0, Sizes DEF Addresses
  <2>2. ((sp + WordBytes) % WordMod) = sp + WordBytes /\ (sp % WordMod) = sp
    BY <2>1, Sizes
  <2>3. (sp + WordBytes) - WordBytes = sp
    BY <2>1, Sizes
  <2> QED
    BY <2>0, <2>2, <2>3 DEF Above, Below
<1>4. CASE Executes(PUSH)
  <2>1. Push(ram[PC])
    BY <1>4, Decoded
  <2>2. /\ AccessValid(sp, WordBytes)
        /\ ram' \in putRAMWord(sp, WordBytes, WR)
        /\ reg' = [reg EXCEPT ![SP_REG] = Above(SP), ![PC_REG] = PCAfter(SP, WordBytes)]
    BY <2>1 DEF Push, ExitMemory
  <2>3. SP' = Above(sp)
    BY <1>2, <2>2 DEF SP, SP_REG, PC_REG
  <2>4. loadWordRAM(sp, WordBytes)' = {WR % WordMod}
    BY <1>2, <1>3, <2>2, WordStored
  <2> QED
    BY <1>3, <1>4, <2>2, <2>3, <2>4 DEF Executes, PUSH, CALL
<1>5. CASE Executes(CALL)
  <2>1. Call(ram[PC])
    BY <1>5, Decoded
  <2>2. /\ AccessValid(sp, WordBytes)
        /\ ram' \in putRAMWord(sp, WordBytes, NextPC)
        /\ reg' = [reg EXCEPT ![SP_REG] = Above(SP), ![PC_REG] = WR]
    BY <2>1 DEF Call, ExitMemory
  <2>3. SP' = Above(sp)
    BY <1>2, <2>2 DEF SP, SP_REG, PC_REG
  <2>4. loadWordRAM(sp, WordBytes)' = {NextPC % WordMod}
    BY <1>2, <1>3, <2>2, WordStored
  <2>5. (NextPC % WordMod) = NextPC
    <3>1. PC \in Addresses
      BY <1>5 DEF Executes
    <3>2. PC + 1 \in 0..(WordMod - 1) /\ PC + 1 \in 0..(HostMod - 1)
      BY <1>1, <3>1, Sizes DEF Addresses
    <3>3. ((PC + 1) % HostMod) = PC + 1 /\ ((PC + 1) % WordMod) = PC + 1
      BY <3>2, Sizes
    <3> QED
      BY <3>3 DEF NextPC
  <2> QED
    BY <1>3, <1>5, <2>2, <2>3, <2>4, <2>5 DEF Executes, PUSH, CALL
<1> QED
  BY <1>4, <1>5

(* The inductive invariant of the record of a trap. *)
WatchInv ==
    /\ trap \in [stage : {"none", "raised", "running"}, level : 0..LEVEL_NORMAL]
    /\ trap.stage = "raised" /\ phase \in {"io", "check_int", "run_inst"} => PC = routine[0]
    /\ trap.stage # "none" => int_level.level = 0 /\ int_level.level_stack[0] = trap.level

(* Nothing interrupts the routine of interrupt 0 before its RETINT. *)
LEMMA RoutineGoesOn ==
    ASSUME TypeInv, RunInst, int_level.level = 0, PC \in Addresses, ~Executes(RETINT)
    PROVE  int_level'.level = 0 /\ int_level'.level_stack[0] = int_level.level_stack[0]
<1> DEFINE i == ram[PC]
<1>1. Fetched = {i} /\ i # RETINT
  BY DEF RunInst, Fetched, Executes, RETINT, JIF
<1>2. RegisterInst(i) \/ MemoryInst(i) \/ ModeInst(i)
  BY <1>1 DEF RunInst
<1> HIDE DEF i
<1>3. CASE RegisterInst(i)
  BY <1>3 DEF RegisterInst
<1>4. CASE MemoryInst(i)
  <2>1. UNCHANGED int_level \/ \E addr, n : int_level' = LevelAfter(addr, n)
    BY <1>4 DEF MemoryInst, Str, Load, Atom, Push, Pop, Call, Ret, ExitMemory
  <2>2. \A addr, n : LevelAfter(addr, n) = int_level
    BY DEF LevelAfter, Trap
  <2> QED
    BY <2>1, <2>2
<1>5. CASE ModeInst(i)
  <2>1. ~RetInt(i)
    BY <1>1 DEF RetInt
  <2>2. \A n \in Ints : ~Accepted(n)
    BY DEF Accepted, Ints
  <2>3. UNCHANGED int_level \/ \E n \in Ints : SetIntStack(i, n)
    BY <1>5, <2>1, <2>2 DEF ModeInst, Quit, Tbm, SetInt, SoftInt
  <2>4. \A n \in Ints : SetIntStack(i, n) =>
           int_level'.level = int_level.level /\ int_level'.level_stack = int_level.level_stack
    BY DEF SetIntStack, TypeInv, IInv, Shape
  <2> QED
    BY <2>3, <2>4
<1> QED
  BY <1>2, <1>3, <1>4, <1>5

LEMMA WatchStep ==
    ASSUME TypeInv, WatchInv, [WatchNext]_watchVars
    PROVE  WatchInv'
<1>1. int_level.level \in 0..LEVEL_NORMAL /\ DOMAIN int_level.level_stack = Ints
  BY DEF TypeInv, IInv, Shape
<1>2. CASE RunInst /\ RecordTrap
  <2>1. CASE ToTrap /\ phase' = "io"
    <3>1. trap' = [stage |-> "raised", level |-> int_level.level]
      BY <1>2, <2>1 DEF RecordTrap
    <3>2. [Next]_vars
      BY <1>2 DEF Next
    <3>3. /\ PC' = routine[0] /\ UNCHANGED routine
          /\ int_level'.level = 0 /\ int_level'.level_stack[0] = int_level.level
      BY <2>1, <3>2, TrapStep
    <3> QED
      BY <1>1, <3>1, <3>3 DEF WatchInv
  <2>2. CASE ~(ToTrap /\ phase' = "io") /\ (trap.stage = "none" \/ Executes(RETINT) \/ PC \notin Addresses)
    <3>1. trap' = NoTrap
      BY <1>2, <2>2 DEF RecordTrap
    <3> QED
      BY <3>1 DEF WatchInv, NoTrap, LEVEL_NORMAL
  <2>3. CASE ~(ToTrap /\ phase' = "io") /\ ~(trap.stage = "none" \/ Executes(RETINT) \/ PC \notin Addresses)
    <3>1. trap' = [trap EXCEPT !.stage = "running"]
      BY <1>2, <2>3 DEF RecordTrap
    <3>2. /\ trap' \in [stage : {"none", "raised", "running"}, level : 0..LEVEL_NORMAL]
          /\ trap'.stage = "running" /\ trap'.level = trap.level
      BY <3>1 DEF WatchInv
    <3>3. int_level.level = 0 /\ int_level.level_stack[0] = trap.level
      BY <2>3 DEF WatchInv
    <3>4. int_level'.level = 0 /\ int_level'.level_stack[0] = int_level.level_stack[0]
      BY <1>2, <2>3, <3>3, RoutineGoesOn
    <3> QED
      BY <3>2, <3>3, <3>4 DEF WatchInv
  <2> QED
    BY <2>1, <2>2, <2>3
<1>3. CASE CheckInt /\ UNCHANGED trap
  <2>1. CASE trap.stage = "none"
    BY <1>3, <2>1 DEF WatchInv
  <2>2. CASE trap.stage # "none"
    <3>1. int_level.level = 0
      BY <2>2 DEF WatchInv
    <3>2. \A i \in Ints : ~FirstAccepted(i)
      BY <3>1 DEF FirstAccepted, Accepted, Ints
    <3>3. UNCHANGED <<reg, int_level, routine>> /\ phase = "check_int"
      BY <1>3, <3>2 DEF CheckInt
    <3> QED
      BY <1>3, <3>3 DEF WatchInv, PC
  <2> QED
    BY <2>1, <2>2
<1>4. CASE Io /\ UNCHANGED trap
  BY <1>4 DEF Io, WatchInv, PC
<1>5. CASE Ended /\ UNCHANGED trap
  BY <1>5 DEF Ended, vars, WatchInv, PC
<1>6. CASE UNCHANGED watchVars
  BY <1>6 DEF watchVars, vars, WatchInv, PC
<1> QED
  BY <1>2, <1>3, <1>4, <1>5, <1>6 DEF WatchNext

(* A misaligned access with the trap enabled goes on in the routine of     *)
(* interrupt 0, whatever its size and whatever the timers: the two         *)
(* decrements of check_alignement_ok and the increment of run_inst leave   *)
(* the PC at the routine, check_int leaves it there, and nothing takes the *)
(* routine out of the context of 0 before its RETINT.                      *)
THEOREM TrapGoesToRoutine == WatchSpec => []TrapRunsRoutine
<1>1. WatchInit => TypeInv /\ WatchInv
  BY InitTypeInv DEF WatchInit, WatchInv, NoTrap, LEVEL_NORMAL
<1>2. TypeInv /\ WatchInv /\ [WatchNext]_watchVars => TypeInv' /\ WatchInv'
  <2>1. [WatchNext]_watchVars => [Next]_vars
    BY DEF WatchNext, Next, watchVars, vars
  <2> QED
    BY <2>1, StepTypeInv, WatchStep
<1>3. WatchInv => TrapRunsRoutine
  BY DEF WatchInv, TrapRunsRoutine
<1> QED
  BY <1>1, <1>2, <1>3, PTL DEF WatchSpec

(* A load gives back what a store of the same size left at the address,    *)
(* whatever the size, and the store changes nothing else, on a host whose  *)
(* addresses are twice those of the RAM or more: calloc grants no other.   *)
THEOREM StoresAreLoaded ==
    ASSUME 2 * RamSize <= HostMod
    PROVE  Spec => StoredIsLoaded
<1>1. TypeInv /\ [Next]_vars => TypeInv'
  BY StepTypeInv
<1>2. TypeInv /\ [Next]_vars =>
        [ Executes(STR) /\ phase' = "io" =>
            \A addr \in Addresses : addr = Argument =>
              \E n \in byteExchanged(FALSE) :
                /\ addr + n <= RamSize
                /\ loadWordRAM(addr, n)' = {IF 8 * n < HostBits THEN WR % 2^(8 * n) ELSE WR}
                /\ \A a \in Addresses \ (addr..(addr + n - 1)) : ram'[a] = ram[a] ]_vars
  BY StoreStep
<1> QED
  BY InitTypeInv, <1>1, <1>2, PTL DEF Spec, StoredIsLoaded

(* PUSH and CALL leave the stack as POP and RET expect it, in a RAM all of *)
(* whose addresses, and those of the word after it, are words of the       *)
(* machine.  A larger RAM than that is one whose end no stack can reach:   *)
(* the sum that PUSH computes wraps at the size of a word.                 *)
THEOREM PushesArePopped ==
    ASSUME RamSize + WordBytes <= WordMod, 2 * RamSize <= HostMod
    PROVE  Spec => PushedIsPopped
<1>1. TypeInv /\ [Next]_vars => TypeInv'
  BY StepTypeInv
<1>2. TypeInv /\ [Next]_vars =>
      [ \A sp \in Addresses :
          sp = SP /\ phase' = "io" =>
            /\ Executes(PUSH) => Below(SP') = sp /\ loadWordRAM(sp, WordBytes)' = {WR % WordMod}
            /\ Executes(CALL) => Below(SP') = sp /\ loadWordRAM(sp, WordBytes)' = {NextPC} ]_vars
  BY StackStep
<1> QED
  BY InitTypeInv, <1>1, <1>2, PTL DEF Spec, PushedIsPopped
=============================================================================
