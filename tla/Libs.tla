-------------------------------- MODULE Libs --------------------------------
(***************************************************************************)
(* The libraries (software/libs), in the assembly of Assembler.  A name is *)
(* that of the function.                                                   *)
(***************************************************************************)
EXTENDS Assembler

(* set a register to the address of a label *)
ToLabel(r, l) == <<<<"setlab", l>>, <<"cpy", r>>>>
To(r, n) == <<<<"set", n>>, <<"cpy", r>>>>
Pushed(registers) == [k \in DOMAIN registers |-> <<"pushr", registers[k]>>]
Popped(registers) == [k \in DOMAIN registers |-> <<"popr", registers[k]>>]
PushedDot(registers) == [k \in DOMAIN registers |-> <<"pushr.", registers[k]>>]
PoppedDot(registers) == [k \in DOMAIN registers |-> <<"popr.", registers[k]>>]

-----------------------------------------------------------------------------
(* math.asm *)

intMult ==
    <<<<"label", "intMult">>>> \o PushedDot(<<2, 3, 4>>) \o To(4, 0)
      \o <<<<"pushr", 5>>>> \o To(5, 1)
      \o <<<<"pushr.", 6>>>> \o ToLabel(6, "intMult.loop")
      \o <<<<"pushr.", 7>>>> \o ToLabel(7, "intMult.midloop")
      \o <<<<"set_wordsize_bit">>, <<"cpy", 3>>,
           <<"label", "intMult.loop">>,
           <<"read", 5>>, <<"and", 2>>, <<"eq", 5>>, <<"cmpnot">>, <<"read", 7>>, <<"jif">>,
           <<"read", 1>>, <<"addup", 4>>, <<"read", 4>>,
           <<"label", "intMult.midloop">>,
           <<"read", 1>>, <<"lsl", 5>>, <<"cpy", 1>>,
           <<"read", 2>>, <<"lsr", 5>>, <<"cpy", 2>>,
           <<"set", 1>>, <<"cc2">>, <<"addup.", 3>>,
           <<"set", 0>>, <<"eq", 3>>, <<"cmpnot">>, <<"read", 6>>, <<"jif">>,
           <<"mov.", 1, 4>>>>
      \o PoppedDot(<<7, 6, 5, 4, 3, 2>>) \o <<<<"ret">>>>

intDiv ==
    <<<<"label", "intDiv">>>> \o Pushed(<<3, 5, 6>>)
      \o ToLabel(5, "intDivLoopStart") \o ToLabel(6, "intDivLoopEnd") \o To(3, 0)
      \o <<<<"label", "intDivLoopStart">>,
           <<"read", 1>>, <<"les", 2>>, <<"read", 6>>, <<"jif">>,
           <<"read", 1>>, <<"sub", 2>>, <<"cpy", 1>>,
           <<"set", 1>>, <<"add", 3>>, <<"cpy", 3>>,
           <<"read", 5>>, <<"jmp">>,
           <<"label", "intDivLoopEnd">>,
           <<"read", 1>>, <<"cpy", 2>>, <<"read", 3>>, <<"cpy", 1>>>>
      \o Popped(<<6, 5, 3>>) \o <<<<"ret">>>>

clog2 ==
    <<<<"label", "clog2">>, <<"pushr.", 2>>>> \o To(2, 0)
      \o <<<<"pushr.", 3>>>> \o ToLabel(3, "clog2.loop")
      \o <<<<"pushr.", 4>>>> \o ToLabel(4, "clog2.loop_end")
      \o <<<<"pushr.", 5>>>> \o To(5, 1)
      \o <<<<"label", "clog2.loop">>,
           <<"set", 0>>, <<"eq", 1>>, <<"read", 4>>, <<"jif">>,
           <<"set", 1>>, <<"addup.", 2>>,
           <<"read", 1>>, <<"lsr", 5>>, <<"cpy", 1>>,
           <<"read", 3>>, <<"jmp">>,
           <<"label", "clog2.loop_end">>, <<"mov.", 1, 2>>>>
      \o PoppedDot(<<5, 4, 3, 2>>) \o <<<<"ret">>>>

intPow ==
    <<<<"label", "intPow">>>> \o Pushed(<<3, 4, 5, 6, 7>>)
      \o ToLabel(5, "intPowLoopEnd") \o ToLabel(6, "intPowLoopStart") \o ToLabel(7, "intMult")
      \o To(3, 1) \o To(4, 0)
      \o <<<<"label", "intPowLoopStart">>,
           <<"read", 4>>, <<"eq", 2>>, <<"read", 5>>, <<"jif">>,
           <<"set", 1>>, <<"add", 4>>, <<"cpy", 4>>,
           <<"pushr", 1>>, <<"pushr", 2>>, <<"read", 3>>, <<"cpy", 2>>,
           <<"read", 7>>, <<"call">>,
           <<"read", 1>>, <<"cpy", 3>>, <<"popr", 2>>, <<"popr", 1>>,
           <<"read", 6>>, <<"jmp">>,
           <<"label", "intPowLoopEnd">>, <<"read", 3>>, <<"cpy", 1>>>>
      \o Popped(<<7, 6, 5, 4, 3>>) \o <<<<"ret">>>>

-----------------------------------------------------------------------------
(* memory.asm *)

memset ==
    <<<<"label", "memset">>>> \o Pushed(<<1, 2, 3, 5, 6>>)
      \o ToLabel(5, "memsetLoop") \o ToLabel(6, "memsetLoopEnd") \o To(12, 1)
      \o <<<<"label", "memsetLoop">>,
           <<"set", 0>>, <<"eq", 2>>, <<"read", 6>>, <<"jif">>,
           <<"read", 3>>, <<"str8", 1>>,
           <<"read", 1>>, <<"add", 12>>, <<"cpy", 1>>,
           <<"read", 2>>, <<"sub", 12>>, <<"cpy", 2>>,
           <<"read", 5>>, <<"jmp">>,
           <<"label", "memsetLoopEnd">>>>
      \o Popped(<<6, 5, 3, 2, 1>>) \o <<<<"ret">>>>

memcpyLoop ==
    <<<<"label", "memcpy_loop">>,
      <<"set", 0>>, <<"eq", 3>>, <<"read", 5>>, <<"jif">>,
      <<"load", 1>>, <<"str", 2>>,
      <<"set", 1>>, <<"addup", 1>>, <<"addup", 2>>, <<"cc2">>, <<"addup", 3>>,
      <<"read", 4>>, <<"jmp">>,
      <<"label", "memcpy_loop_end">>>>

memcpy ==
    <<<<"label", "memcpy">>>> \o PushedDot(<<1, 2, 3, sr, 4, 5>>)
      \o ToLabel(4, "memcpy_loop") \o ToLabel(5, "memcpy_loop_end")
      \o <<<<"@set_sr_for", 8>>>>
      \o memcpyLoop \o PoppedDot(<<5, 4, sr, 3, 2, 1>>) \o <<<<"ret">>>>

-----------------------------------------------------------------------------
(* linked_jumps.asm *)

(* Mutant: the link is one byte before the instruction that follows. *)
call_lrShort(r) ==
    <<<<"cpy", 12>>, <<"set", 3>>, <<"add", pc>>, <<"cpy", r>>, <<"read", 12>>, <<"cpy", pc>>>>

call_lr(r) ==
    <<<<"cpy", 12>>, <<"set", 4>>, <<"add", pc>>, <<"cpy", r>>, <<"read", 12>>, <<"cpy", pc>>>>

callf_lr(f, r) == <<<<"setlab", f>>>> \o call_lr(r)

ret_lr(r) == <<<<"read", r>>, <<"cpy", pc>>>>

-----------------------------------------------------------------------------
(* string.asm *)

strlen ==
    <<<<"label", "strlen">>>> \o Pushed(<<2, 3, 4>>)
      \o <<<<"read", 1>>, <<"cpy", 2>>>> \o ToLabel(3, "strlenLoop") \o To(4, 0)
      \o <<<<"label", "strlenLoop">>,
           <<"load8", 2>>, <<"eq", 4>>, <<"cmpnot">>,
           <<"set", 1>>, <<"add", 2>>, <<"cpy", 2>>,
           <<"read", 3>>, <<"jif">>,
           <<"set", 1>>, <<"cpy", 3>>, <<"read", 2>>, <<"sub", 3>>,
           <<"sub", 1>>, <<"cpy", 1>>>>
      \o Popped(<<4, 3, 2>>) \o <<<<"ret">>>>

strFlip ==
    <<<<"label", "strFlip">>>> \o PushedDot(<<1, 2, 3, 4>>)
      \o <<<<"pushr.", 1>>, <<"callf", "strlen">>, <<"cpy", 2>>, <<"popr", 1>>,
           <<"add", 1>>, <<"cpy", 2>>, <<"set", 1>>, <<"subto", 2>>, <<"cpy", 2>>>>
      \o ToLabel(3, "strFlipLoop")
      \o <<<<"label", "strFlipLoop">>,
           <<"load8", 1>>, <<"cpy", 4>>, <<"load8", 2>>, <<"str8", 1>>,
           <<"read", 4>>, <<"str8", 2>>,
           <<"set", 1>>, <<"cpy", 4>>, <<"read", 1>>, <<"add", 4>>, <<"cpy", 1>>,
           <<"read", 2>>, <<"sub", 4>>, <<"cpy", 2>>,
           <<"read", 1>>, <<"les", 2>>, <<"read", 3>>, <<"jif">>>>
      \o PoppedDot(<<4, 3, 2, 1>>) \o <<<<"ret">>>>

-----------------------------------------------------------------------------
(* basicIO.asm *)

printc ==
    <<<<"label", "printc">>>> \o Pushed(<<2, 3>>) \o To(2, 0) \o To(3, 1)
      \o <<<<"read", 1>>, <<"str8", 3>>, <<"set", 0>>, <<"str8", 2>>>>
      \o Popped(<<3, 2>>) \o <<<<"ret">>>>

CR ==
    <<<<"label", "CR">>, <<"pushr", 1>>>> \o To(1, 10)
      \o <<<<"callf", "printc">>, <<"popr", 1>>, <<"ret">>>>

getch ==
    <<<<"label", "getch">>>> \o To(1, 2)
      \o <<<<"set", 0>>, <<"str8", 1>>, <<"load8", 1>>, <<"cpy", 1>>,
           <<"set", 1>>, <<"eq", 1>>>>
      \o To(1, 3) \o <<<<"load8", 1>>, <<"cpy", 1>>, <<"ret">>>>

-----------------------------------------------------------------------------
(* printing.asm *)

print_n ==
    <<<<"label", "(print)">>, <<"read", 1>>>> \o Pushed(<<1, 2, 3, 4, 5, 6>>)
      \o ToLabel(3, "(print)-loop") \o ToLabel(4, "(print)-endloop") \o To(5, 1)
      \o ToLabel(6, "printc")
      \o <<<<"label", "(print)-loop">>,
           <<"set", 0>>, <<"eq", 2>>, <<"read", 4>>, <<"jif">>,
           <<"tbm">>, <<"load8", 1>>, <<"tbm">>, <<"cpy", 12>>, <<"pushr", 1>>,
           <<"mov", 1, 12>>, <<"read", 6>>, <<"call">>, <<"popr", 1>>,
           <<"read", 1>>, <<"add", 5>>, <<"cpy", 1>>,
           <<"read", 2>>, <<"sub", 5>>, <<"cpy", 2>>,
           <<"read", 3>>, <<"jmp">>,
           <<"label", "(print)-endloop">>>>
      \o Popped(<<6, 5, 4, 3, 2, 1>>) \o <<<<"ret">>>>

print ==
    <<<<"label", "print">>>> \o Pushed(<<2, 1>>)
      \o <<<<"callf", "strlen">>, <<"mov", 2, 1>>, <<"popr", 1>>,
           <<"callf", "(print)">>, <<"popr", 2>>, <<"ret">>>>

num2dec ==
    <<<<"label", "num2dec">>, <<"set", 0>>, <<"eq", 1>>, <<"setlab", "num2dec0">>, <<"jif">>>>
      \o Pushed(<<1, 2, 3, 4, 5, 6, 7>>) \o <<<<"mov", 3, 2>>>> \o ToLabel(6, "num2decLoop")
      \o <<<<"setr", 4, 10>>, <<"setr", 5, 48>>>> \o ToLabel(7, "intDiv")
      \o <<<<"label", "num2decLoop">>,
           <<"mov", 2, 4>>, <<"read", 7>>, <<"call">>,
           <<"read", 2>>, <<"add", 5>>, <<"str8", 3>>,
           <<"set", 1>>, <<"add", 3>>, <<"cpy", 3>>,
           <<"set", 0>>, <<"eq", 1>>, <<"read", 6>>, <<"cmpnot">>, <<"jif">>,
           <<"set", 0>>, <<"str8", 3>>>>
      \o Popped(<<7, 6, 5, 4, 3, 2>>)
      \o <<<<"mov", 1, 2>>, <<"callf", "strFlip">>, <<"popr", 1>>, <<"ret">>,
           <<"label", "num2dec0">>, <<"set+", 48>>, <<"str8", 2>>,
           <<"pushr.", 2>>, <<"set", 1>>, <<"add", 2>>, <<"cpy", 2>>,
           <<"set", 0>>, <<"str8", 2>>, <<"popr.", 2>>, <<"ret">>>>

(* Mutant: the number is written where the calls have their stack. *)
printNumLow ==
    <<<<"label", "printNum">>, <<"pushr", 2>>, <<"set+", 20>>, <<"add", sp>>, <<"cpy", 2>>,
      <<"callf", "num2dec">>, <<"pushr", 1>>, <<"mov", 1, 2>>, <<"callf", "print">>,
      <<"popr", 1>>, <<"popr", 2>>, <<"ret">>>>

printNum ==
    <<<<"label", "printNum">>, <<"pushr", 2>>, <<"set+", 100>>, <<"add", sp>>, <<"cpy", 2>>,
      <<"callf", "num2dec">>, <<"pushr", 1>>, <<"mov", 1, 2>>, <<"callf", "print">>,
      <<"popr", 1>>, <<"popr", 2>>, <<"ret">>>>

(* prints: the text is in the section of the strings, at the end of the file. *)
_prints(l) == <<<<"setlab", l>>, <<"cpy", 1>>, <<"callf", "print">>>>

String(l, chars) == <<<<"label", l>>, <<"@rawbytes", chars \o <<0>>>>>>
=============================================================================
