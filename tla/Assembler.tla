----------------------------- MODULE Assembler -----------------------------
(***************************************************************************)
(* The assembler (assembler/src): from lines of assembly to the bytes of a *)
(* program.                                                                *)
(*                                                                         *)
(* A line is a tuple: a mnemonic, a macro or a directive, then its         *)
(* arguments.  A register is its number, a label a string.  The expansion  *)
(* of user macros, the layout and the links are those of an external       *)
(* library (macro_asm_builder), as the code uses it.                       *)
(***************************************************************************)
EXTENDS Integers, Sequences

CONSTANT WordSize       \* the -word-size argument, in bits

ASSUME AssemblerAssumption == WordSize \in {8, 16, 32, 64}

wr == 0
sr == 13
pc == 14
sp == 15

WordSizeByte == WordSize \div 8

-----------------------------------------------------------------------------
(* micro_assembler.rs *)

NoArg(op) == [size |-> 0, opcode |-> op]
Register(op) == [size |-> 4, opcode |-> op]
Number(bits, op) == [size |-> bits, opcode |-> op]

INSTRUCTION_LIST ==
    [read |-> Register(0), cpy |-> Register(1), set |-> Number(4, 2),
     add |-> Register(3), and |-> Register(4), or |-> Register(5),
     xor |-> Register(6), not |-> Register(7), lsl |-> Register(8),
     lsr |-> Register(9), eq |-> Register(10), les |-> Register(11),
     str |-> Register(12), load |-> Register(13),
     jif |-> NoArg(224), call |-> NoArg(225), ret |-> NoArg(226),
     pop |-> NoArg(227), push |-> NoArg(228), cc2 |-> NoArg(229),
     cmpnot |-> NoArg(230), tbm |-> NoArg(231), quit |-> NoArg(232),
     debug |-> NoArg(233), atom |-> NoArg(234), retint |-> NoArg(235),
     setint |-> Number(2, 59), getint |-> Number(2, 60),
     getintstack |-> Number(2, 61), setintstack |-> Number(2, 62),
     softint |-> Number(2, 63)]

format_instruction(line) ==
    LET i == INSTRUCTION_LIST[line[1]]
    IN  IF i.size = 0 THEN i.opcode ELSE i.opcode * 2^i.size + line[2]

-----------------------------------------------------------------------------
(* macros.rs and the macros that main.rs makes for the word size. *)

format_set8(n) ==
    <<<<"set", 4>>, <<"cpy", 12>>, <<"set", n \div 16>>, <<"lsl", 12>>,
      <<"cpy", 12>>, <<"set", n % 16>>, <<"or", 12>>>>

(* The reduced behaviour bits for accesses of so many bits, and the low    *)
(* bits of SR.                                                             *)
format_get_sr_for(bits) ==
    <<<<"set", 8>>, <<"cpy", 12>>,
      <<"set", (CHOOSE n \in 0..4 : 2^n = bits \div 8) + 1>>, <<"lsl", 12>>,
      <<"xor", sr>>, <<"lsr", 12>>, <<"lsl", 12>>, <<"xor", sr>>>>

set_wordsize_byte ==
    IF WordSize = 64 THEN <<<<"set", 4>>, <<"add", wr>>>> ELSE <<<<"set", WordSizeByte>>>>

-----------------------------------------------------------------------------
(* default_macros.asm *)

(* The constant is in the code, jumped over and loaded. *)
set_to_constant(directive, x) ==
    <<<<"mov.", 11, sr>>, <<"@set_default_sr">>, <<"@set_wordsize_byte">>,
      <<"cpy", 12>>, <<"@align", WordSizeByte>>,
      <<"set", 2>>, <<"add", 12>>, <<"add", pc>>, <<"jmp">>,
      <<directive, x>>,
      <<"set", 3>>, <<"add", 12>>, <<"cc2">>, <<"add", pc>>, <<"load", wr>>,
      <<"mov", sr, 11>>>>

loadX(bits, r) ==
    <<<<"mov.", 11, sr>>, <<"@set_sr_for", bits>>, <<"load", r>>, <<"cpy", 12>>,
      <<"mov.", sr, 11>>, <<"read", 12>>>>

(* Mutant: SR is left for the access. *)
strXKept(bits, r) ==
    <<<<"cpy", 11>>, <<"@get_sr_for", bits>>, <<"xor", sr>>, <<"cpy", 12>>,
      <<"read", sr>>, <<"xor", 12>>, <<"cpy", sr>>,
      <<"read", 11>>, <<"str", r>>, <<"cpy", 11>>, <<"read", 11>>>>

strX(bits, r) ==
    <<<<"cpy", 11>>, <<"@get_sr_for", bits>>, <<"xor", sr>>, <<"cpy", 12>>,
      <<"read", sr>>, <<"xor", 12>>, <<"cpy", sr>>,
      <<"read", 11>>, <<"str", r>>, <<"cpy", 11>>,
      <<"read", 12>>, <<"xor", sr>>, <<"cpy", sr>>, <<"read", 11>>>>

(* A macro without a dot keeps the working register. *)
Keeping(line) == <<<<"cpy", 12>>, line, <<"read", 12>>>>

Macros == {"@set8", "@set_sr_for", "@get_sr_for", "@set_default_sr", "@set_wordsize_byte",
           "set+", "setlab", "goto", "callf", "jifl", "setr", "mov.", "mov",
           "pushr.", "pushr", "popr.", "popr", "addup.", "addup", "inc.", "inc",
           "inc_ws.", "inc_ws", "jmp", "label", "set8", "load8", "load16", "str8",
           "str16", "load8.", "str8.", "subto", "sub", "nop",
           "set_wordsize_bit", "leseq", "great", "greateq", "neq"}

(* The lines that a line stands for, macros of other lines among them. *)
Definition(line) ==
    LET m == line[1]
        a == line[2]
        b == line[3]
    IN  CASE m \in {"@set8", "set8"} -> format_set8(a)
          [] m = "@get_sr_for" -> format_get_sr_for(a)
          [] m = "@set_sr_for" -> <<<<"@get_sr_for", a>>, <<"cpy", sr>>>>
          [] m = "@set_default_sr" -> <<<<"@set_sr_for", WordSize>>>>
          [] m = "@set_wordsize_byte" -> set_wordsize_byte
          [] m = "set+" -> set_to_constant("@constant", a)
          [] m = "setlab" -> set_to_constant("@labref", a)
          [] m = "goto" -> <<<<"setlab", a>>, <<"jmp">>>>
          [] m = "callf" -> <<<<"setlab", a>>, <<"call">>>>
          [] m = "jifl" -> <<<<"setlab", a>>, <<"jif">>>>
          [] m = "setr" -> <<<<"set+", b>>, <<"cpy", a>>>>
          [] m = "mov." -> <<<<"read", b>>, <<"cpy", a>>>>
          [] m = "mov" -> Keeping(<<"mov.", a, b>>)
          [] m = "pushr." -> <<<<"read", a>>, <<"push">>>>
          [] m = "pushr" -> Keeping(<<"pushr.", a>>)
          [] m = "popr." -> <<<<"pop">>, <<"cpy", a>>>>
          [] m = "popr" -> Keeping(<<"popr.", a>>)
          [] m = "addup." -> <<<<"add", a>>, <<"cpy", a>>>>
          [] m = "addup" -> Keeping(<<"addup.", a>>)
          [] m = "inc." -> <<<<"set", 1>>, <<"addup.", a>>, <<"cpy", a>>>>
          [] m = "inc" -> Keeping(<<"inc.", a>>)
          [] m = "inc_ws." -> <<<<"@set_wordsize_byte">>, <<"addup.", a>>>>
          [] m = "inc_ws" -> Keeping(<<"inc_ws.", a>>)
          [] m = "jmp" -> <<<<"cpy", pc>>>>
          [] m = "label" -> <<<<"@label", a>>>>
          [] m = "load8" -> loadX(8, a)
          [] m = "load16" -> loadX(16, a)
          [] m = "str8" -> strX(8, a)
          [] m = "str16" -> strX(16, a)
          [] m = "load8." -> <<<<"tbm">>, <<"load", a>>, <<"tbm">>>>
          [] m = "str8." -> <<<<"tbm">>, <<"str", a>>, <<"tbm">>>>
          [] m = "subto" -> <<<<"cc2">>, <<"add", a>>>>
          [] m = "sub" -> <<<<"subto", a>>, <<"cc2">>>>
          [] m = "nop" -> <<<<"read", wr>>>>
          [] m = "set_wordsize_bit" -> <<<<"@set_wordsize_byte">>, <<"add", wr>>, <<"add", wr>>, <<"add", wr>>>>
          [] m = "leseq" -> <<<<"cpy", 12>>, <<"read", a>>, <<"les", 12>>, <<"cmpnot">>>>
          [] m = "great" -> <<<<"leseq", a>>, <<"cmpnot">>>>
          [] m = "greateq" -> <<<<"les", a>>, <<"cmpnot">>>>
          [] m = "neq" -> <<<<"eq", a>>, <<"cmpnot">>>>

-----------------------------------------------------------------------------
(* Expansion, layout and links. *)

RECURSIVE Expand(_)
Expand(lines) ==
    IF lines = <<>> THEN <<>>
    ELSE IF Len(lines) > 1
    THEN LET half == Len(lines) \div 2
         IN  Expand(SubSeq(lines, 1, half)) \o Expand(SubSeq(lines, half + 1, Len(lines)))
    ELSE IF lines[1][1] \in Macros THEN Expand(Definition(lines[1])) ELSE lines

(* The bytes that a line of expanded code takes at an address. *)
BytesOf(line, addr) ==
    CASE line[1] = "@label" -> 0
      [] line[1] \in {"@labref", "@constant"} -> WordSizeByte
      [] line[1] = "@rawbytes" -> Len(line[2])
      [] line[1] = "@align" -> (-addr) % line[2]
      [] OTHER -> 1

(* The address of every line, and of the end. *)
RECURSIVE Positions(_, _)
Positions(lines, addr) ==
    IF Len(lines) = 1 THEN <<addr, addr + BytesOf(lines[1], addr)>>
    ELSE LET half == Len(lines) \div 2
             first == Positions(SubSeq(lines, 1, half), addr)
         IN  SubSeq(first, 1, half)
               \o Positions(SubSeq(lines, half + 1, Len(lines)), first[half + 1])

Labels(lines, positions) ==
    LET marks == {k \in DOMAIN lines : lines[k][1] = "@label"}
    IN  [l \in {lines[k][2] : k \in marks} |->
            positions[CHOOSE k \in marks : lines[k][2] = l]]

(* Little endian, like an access of the processor. *)
WordBytesOf(n) == [k \in 1..WordSizeByte |-> (n \div 2^(8 * (k - 1))) % 256]

Encode(line, addr, labels) ==
    CASE line[1] = "@label" -> <<>>
      [] line[1] = "@labref" -> WordBytesOf(labels[line[2]])
      [] line[1] = "@constant" -> WordBytesOf(line[2])
      [] line[1] = "@rawbytes" -> line[2]
      [] line[1] = "@align" -> [k \in 1..((-addr) % line[2]) |-> 0]
      [] OTHER -> <<format_instruction(line)>>

RECURSIVE Link(_, _, _)
Link(lines, positions, labels) ==
    IF Len(lines) = 1 THEN Encode(lines[1], positions[1], labels)
    ELSE LET half == Len(lines) \div 2
         IN  Link(SubSeq(lines, 1, half), SubSeq(positions, 1, half), labels)
               \o Link(SubSeq(lines, half + 1, Len(lines)),
                       SubSeq(positions, half + 1, Len(lines)), labels)

(* Mutant: the stack is left at the start of the RAM. *)
runtime_startNoStack ==
    <<<<"@rawbytes", <<65, 83, 82, 77>>>>, <<"@set_default_sr">>,
      <<"setlab", "__code__end__">>,
      <<"goto", "start">>, <<"@label", "__code__start__">>>>

(* What the default options put before and after a program. *)
runtime_start ==
    <<<<"@rawbytes", <<65, 83, 82, 77>>>>, <<"@set_default_sr">>,
      <<"setlab", "__code__end__">>, <<"cpy", sp>>,
      <<"goto", "start">>, <<"@label", "__code__start__">>>>

runtime_end == <<<<"@align", WordSizeByte>>, <<"@label", "__code__end__">>>>

(* A program: its bytes, from address 0, and the addresses of its labels.  *)
assemble(source) ==
    LET lines == Expand(runtime_start \o source \o runtime_end)
        positions == Positions(lines, 0)
        labels == Labels(lines, positions)
    IN  [bytes |-> Link(lines, positions, labels), labels |-> labels]
=============================================================================
