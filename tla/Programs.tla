------------------------------ MODULE Programs ------------------------------
(***************************************************************************)
(* Assembled programs on the simulator: the two tasks of the context       *)
(* switching test, and programs that call one function of the libraries or *)
(* one macro of the assembler.                                             *)
(***************************************************************************)
EXTENDS Simulator, Os, SequencesExt

CONSTANTS
    Calls       \* the programs beside the test: records [f, args, work, code, text, every]

VARIABLES
    program,    \* what was loaded: a call, or Switch for the test
    printed,    \* history: the characters that io has written to stdout
    task,       \* history: the task that runs or was saved last
    saved       \* history: the registers of a task at its last SOFTINT

allVars == <<vars, program, printed, task, saved>>

-----------------------------------------------------------------------------
(* A call puts its arguments in R1, R2..., something in the other          *)
(* registers, calls f and quits.  The lines of code are for "code", which  *)
(* runs them with work in the working register.  When every is not 0, a    *)
(* timer of that period interrupts the program, and its routine, that of   *)
(* test_interrupt.asm, counts in R9.                                       *)

TEXT == -1      \* the argument that is the address of the text
BUFFER == -2    \* that of the zeros after it
Pointer == (TEXT :> "text") @@ (BUFFER :> "buffer")

Room == 8       \* bytes of the buffer

Prepare(k, args) ==
    IF k \notin DOMAIN args THEN <<<<"set8", 64 + k>>, <<"cpy", k>>>>
    ELSE IF args[k] < 0 THEN ToLabel(k, Pointer[args[k]])
    ELSE <<<<"setr", k, args[k]>>>>

(* The functions that f reaches, itself first. *)
Library(f) ==
    CASE f = "intMult" -> intMult [] f = "intDiv" -> intDiv [] f = "clog2" -> clog2
      [] f = "intPow" -> intPow \o intMult
      [] f = "memset" -> memset [] f = "memcpy" -> memcpy
      [] f = "strlen" -> strlen [] f = "strFlip" -> strFlip \o strlen
      [] f = "printc" -> printc [] f = "CR" -> CR \o printc [] f = "getch" -> getch
      [] f = "(print)" -> print_n \o printc
      [] f = "print" -> print \o print_n \o strlen \o printc
      [] f = "num2dec" -> num2dec \o intDiv \o strFlip \o strlen
      [] f = "printNum" -> printNum \o num2dec \o intDiv \o strFlip \o print \o print_n
                             \o strlen \o printc
      [] f = "linked" -> <<<<"label", "linked">>>> \o To(1, 5) \o ret_lr(10)
      [] f = "code" -> <<>>

Invoke(call) ==
    CASE call.f = "code" -> <<<<"set8", call.work>>>> \o call.code
      [] call.f = "linked" -> callf_lr("linked", 10)
      [] OTHER -> <<<<"callf", call.f>>>>

ISR == <<<<"label", "ISR">>, <<"push">>, <<"set", 1>>, <<"add", 9>>, <<"debug">>,
         <<"cpy", 9>>, <<"pop">>, <<"retint">>>>

Interrupted(call) == call.every > 0

StartTimer ==
    <<<<"setlab", "ISR">>, <<"setint", 1>>, <<"set8", 4>>, <<"or", sr>>, <<"cpy", sr>>>>

SourceOf(call) ==
    <<<<"label", "start">>>> \o FlattenSeq([k \in 1..10 |-> Prepare(k, call.args)])
      \o (IF Interrupted(call) THEN StartTimer ELSE <<>>)
      \o Invoke(call) \o <<<<"quit">>>> \o ISR \o Library(call.f)
      \o <<<<"@align", 2>>, <<"label", "text">>, <<"@rawbytes", call.text \o <<0>>>>,
           <<"label", "buffer">>, <<"@rawbytes", [k \in 1..Room |-> 0]>>>>

Switch == [f |-> "switch", args |-> <<>>, work |-> 0, code |-> <<>>, text |-> <<>>,
           every |-> 0]

AssembledCalls == [call \in Calls |-> assemble(SourceOf(call))]
AssembledSwitch == assemble(basic_context_switching)

Switching == program = Switch
Assembled == IF Switching THEN AssembledSwitch ELSE AssembledCalls[program]
Address(l) == Assembled.labels[l]

ImageOf(bytes) == [a \in Addresses |-> IF a < Len(bytes) THEN bytes[a + 1] ELSE 0]

-----------------------------------------------------------------------------
(* The simulator, and what the histories remember of its steps. *)

ProgramsInit ==
    /\ \/ program = Switch /\ ram = ImageOf(AssembledSwitch.bytes)
       \/ \E call \in Calls : program = call /\ ram = ImageOf(AssembledCalls[call].bytes)
    /\ Init
    /\ freq = IF Interrupted(program) THEN 1 :> program.every ELSE <<>>
    /\ printed = <<>>
    /\ task = 1
    /\ saved = [t \in {1, 2} |-> <<>>]

(* The interrupt of a task, and the instruction that goes back to one. *)
Saves == phase = "run_inst" /\ int_level.level = LEVEL_NORMAL /\ int_level'.level = used_interrupt
Resumes == Switching /\ phase = "run_inst" /\ PC = AssembledSwitch.labels["resume"]

Remember ==
    /\ printed' = IF phase = "io" THEN printed \o [k \in DOMAIN out' |-> out'[k][2]] ELSE printed
    /\ task' = IF Resumes THEN 3 - task ELSE task
    /\ saved' = IF Saves
                THEN [saved EXCEPT ![task] = [reg EXCEPT ![PC_REG] = NextPC]]
                ELSE saved

ProgramsNext == Next /\ Remember /\ UNCHANGED program

ProgramsSpec == ProgramsInit /\ [][ProgramsNext]_allVars /\ WF_vars(Next)

-----------------------------------------------------------------------------
(* The context switch. *)

(* When a task goes on it finds all of its registers, the comparison bit,  *)
(* the stack pointer and the address after its SOFTINT included            *)
(* (reflet_os.asm:4), whatever the other task did with them; before its    *)
(* first interrupt it begins at its first line.                            *)
ContextKept ==
    [][ Resumes =>
          LET other == saved[3 - task]
          IN  IF other = <<>> THEN reg'[PC_REG] = AssembledSwitch.labels["routine_2"]
              ELSE reg' = other ]_allVars

(* The tasks print in turn, and the first ends the program after three     *)
(* turns of each although the second spoils its counter                    *)
(* (basic_context_switching.asm:33).                                       *)
Turns == Hi \o Hello \o Hi \o Hello \o Hi \o Hello

TasksAlternate ==
    Switching => /\ IsPrefix(printed, Turns)
                 /\ phase = "returned" => printed = Turns

-----------------------------------------------------------------------------
(* The functions. *)

Called == ~Switching
A(k) == program.args[k]
TheText == program.text

Digits ==
    LET d[n \in 0..(WordMod - 1)] ==
            IF n < 10 THEN <<48 + n>> ELSE Append(d[n \div 10], 48 + (n % 10))
    IN  d

(* The value that the program put in register k. *)
Given(k) ==
    IF k \notin DOMAIN program.args THEN 64 + k
    ELSE IF A(k) < 0 THEN Address(Pointer[A(k)])
    ELSE A(k)

CeilLog2(n) == CHOOSE k \in 0..WordBits : n <= 2^k /\ (k > 0 => 2^(k - 1) < n)

IsPowerOf2(n) == \E k \in 0..WordBits : n = 2^k

NoChange == [k \in {} |-> 0]

(* What a line of code says of the registers, in assembler/README.md: 0 is *)
(* the working register.                                                   *)
MacroResult ==
    LET line == program.code[1]
        w == program.work
        Both(value) == (line[2] :> value) @@ (0 :> w)
    IN  CASE line[1] = "set+" -> 0 :> line[2]
          [] line[1] = "setlab" -> 0 :> Address(line[2])
          [] line[1] = "set8" -> 0 :> line[2]
          [] line[1] = "setr" -> line[2] :> line[3]
          [] line[1] = "set_wordsize_bit" -> 0 :> WordSize
          [] line[1] = "nop" -> 0 :> w
          [] line[1] = "sub" -> 0 :> (w - Given(line[2])) % WordMod
          [] line[1] = "subto" -> 0 :> (Given(line[2]) - w) % WordMod
          [] line[1] = "mov" -> Both(Given(line[3]))
          [] line[1] = "addup" -> Both((Given(line[2]) + w) % WordMod)
          [] line[1] = "inc" -> Both((Given(line[2]) + 1) % WordMod)
          [] line[1] = "inc_ws" -> Both((Given(line[2]) + WordBytes) % WordMod)
          [] line[1] \in {"load8", "load8."} -> 0 :> TheText[1]
          [] line[1] = "load16" -> 0 :> TheText[1] + 256 * TheText[2]
          [] line[1] \in {"str8", "str8.", "str16"} -> 0 :> w
          [] line[1] = "pushr" -> (program.code[2][2] :> Given(line[2])) @@ (0 :> w)
          [] OTHER -> NoChange

(* The comparison that a line of code makes, in the same words. *)
MacroCompares ==
    LET line == program.code[1]
        w == program.work
    IN  CASE line[1] = "leseq" -> w <= Given(line[2])
          [] line[1] = "great" -> w > Given(line[2])
          [] line[1] = "greateq" -> w >= Given(line[2])
          [] line[1] = "neq" -> w # Given(line[2])
          [] OTHER -> Bit(SR, 0)

(* The registers that a function is for, with their values after it.       *)
(* The one deviation is clog2: "ceil(log2(R1))" (math.asm:98) is what it   *)
(* gives except for a power of two, whose logarithm it gives plus one, and *)
(* 0, which has no logarithm and for which it gives 0.                     *)
Result ==
    LET f == program.f
    IN  CASE f = "intMult" -> 1 :> (A(1) * A(2)) % WordMod
          [] f = "intDiv" -> (1 :> A(1) \div A(2)) @@ (2 :> A(1) % A(2))
          [] f = "intPow" -> 1 :> (A(1)^A(2)) % WordMod
          [] f = "clog2" /\ A(1) = 0 -> 1 :> 0
          [] f = "clog2" /\ IsPowerOf2(A(1)) -> 1 :> CeilLog2(A(1)) + 1
          [] f = "clog2" -> 1 :> CeilLog2(A(1))
          [] f = "strlen" -> 1 :> Len(TheText)
          [] f = "getch" -> 1 :> ram[RxData]
          [] f = "linked" -> (1 :> 5) @@ (10 :> reg[10])
          [] f = "code" -> MacroResult
          [] OTHER -> NoChange

Written ==
    CASE program.f \in {"(print)"} -> SubSeq(TheText, 1, A(2))
      [] program.f = "print" -> TheText
      [] program.f = "printc" -> <<A(1) % 256>>
      [] program.f = "CR" -> <<10>>
      [] program.f = "printNum" -> Digits[A(1)]
      [] OTHER -> <<>>

(* The text and the buffer after a function, 0 at the end of the text.     *)
TextAfter ==
    CASE program.f = "strFlip" -> Reverse(TheText)
      [] program.f = "code" /\ program.code[1][1] \in {"str8", "str8."} ->
            [TheText EXCEPT ![1] = program.work]
      [] program.f = "code" /\ program.code[1][1] = "str16" ->
            [TheText EXCEPT ![1] = program.work, ![2] = 0]
      [] OTHER -> TheText

BufferAfter ==
    LET filled == CASE program.f = "num2dec" -> Digits[A(1)]
                    [] program.f = "memcpy" -> SubSeq(TheText, 1, A(3))
                    [] OTHER -> <<>>
    IN  filled \o [k \in 1..(Room - Len(filled)) |-> 0]

(* A function leaves in its registers, in memory and on stdout what the    *)
(* comments and README.md say of it, and so does a macro; clog2 of a power *)
(* of two is the exception, as Result says.                                *)
CallsCompute ==
    Called /\ phase = "returned" =>
        /\ \A k \in DOMAIN Result : reg[k] = Result[k]
        /\ printed = Written
        /\ program.f = "getch" => Bit(SR, 0) = (ram[RxCmd] = 1)
        /\ program.f = "code" => Bit(SR, 0) = MacroCompares
        /\ LET after == TextAfter \o <<0>> \o BufferAfter
           IN  \A k \in DOMAIN after : ram[Address("text") + k - 1] = after[k]

(* "A function preserves any register that is not used to output the       *)
(* result of the function except R11 and R12" (software/README.md:21): the *)
(* stack pointer, the size of the accesses and the interrupts that are     *)
(* enabled included, whether or not a timer interrupts it anywhere.        *)
RegistersPreserved ==
    Called /\ phase = "returned" =>
        /\ \A k \in (1..10) \ DOMAIN Result :
              (k = 9 /\ Interrupted(program)) \/ reg[k] = Given(k)
        /\ SP = Address("__code__end__")
        /\ Bits(SR) \ {0} = {9} \cup (IF Interrupted(program) THEN {2} ELSE {})

(* No function writes on the program: what is before the text is as it was *)
(* assembled, the command cells of the I/O aside.                          *)
CodeIntact ==
    phase \in {"returned", "RET_MEMORY"} =>
        LET end == IF Switching THEN "__code__end__" ELSE "text"
        IN  \A a \in START_CHAR..(Address(end) - 1) : ram[a] = Assembled.bytes[a + 1]

(* Every function returns and the test of the switch ends, except memset:  *)
(* the 1 by which it advances is in R12, which str8 uses (memory.asm:19),  *)
(* and it leaves the RAM.                                                  *)
Returns == program.f = "memset" => A(2) = 0

ProgramsEnd ==
    <>(phase = IF Switching \/ Returns THEN "returned" ELSE "RET_MEMORY")
=============================================================================
