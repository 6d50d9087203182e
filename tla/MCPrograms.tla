----------------------------- MODULE MCPrograms -----------------------------
(***************************************************************************)
(* Programs for the simulator with 16-bit words.                           *)
(***************************************************************************)
EXTENDS Programs

MCHi == <<72>>
MCHello == <<101, 111>>

Function(f, args) == [f |-> f, args |-> args, work |-> 0, code |-> <<>>, text |-> <<>>,
                      every |-> 0]
OnText(f, args, text) == [Function(f, args) EXCEPT !.text = text]
Macro(code, work, r1) ==
    [OnText("code", <<r1>>, <<97, 98>>) EXCEPT !.code = code, !.work = work]

Arithmetic ==
    {Function("intMult", <<a, b>>) : a \in {0, 13, 300}, b \in {0, 15, 257}}
      \cup {Function("intDiv", <<a, b>>) : a \in {0, 7, 15, 200}, b \in {1, 4, 15, 300}}
      \cup {Function("clog2", <<a>>) : a \in {0, 1, 2, 3, 7, 8, 9, 12, 65535}}
      \cup {Function("intPow", <<a, b>>) : a \in {2, 3}, b \in {0, 1, 5}}

Memory ==
    {OnText("memcpy", <<TEXT, BUFFER, n>>, <<97, 98, 99>>) : n \in {0, 1, 3}}
      \cup {Function("memset", <<BUFFER, n, 7>>) : n \in {0, 1, 2}}

Texts == {<<97>>, <<97, 98>>, <<97, 98, 99>>}

Strings ==
    {OnText("strlen", <<TEXT>>, t) : t \in Texts \cup {<<>>}}
      \cup {OnText("strFlip", <<TEXT>>, t) : t \in Texts}

Printing ==
    {Function("printc", <<64>>), Function("CR", <<>>), Function("getch", <<>>),
     OnText("(print)", <<TEXT, 1>>, <<97, 98>>), OnText("print", <<TEXT>>, <<97, 98>>)}
      \cup {Function("num2dec", <<n, BUFFER>>) : n \in {0, 9, 10, 99, 123}}
      \cup {Function("printNum", <<n>>) : n \in {0, 42}}

Compared == {"leseq", "great", "greateq", "neq"}

Lines ==
    {Macro(<<<<m, 1>>>>, w, 200) : m \in Compared \cup {"sub", "subto", "addup", "inc", "inc_ws"},
                                   w \in {3, 200, 255}}
      \cup {Macro(<<line>>, 9, 65535) :
                line \in {<<"mov", 2, 1>>, <<"inc", 1>>, <<"addup", 1>>, <<"set+", 4660>>,
                          <<"setlab", "buffer">>, <<"set8", 165>>, <<"setr", 1, 513>>,
                          <<"set_wordsize_bit">>, <<"nop">>}}
      \cup {Macro(<<<<m, 1>>>>, 9, TEXT) :
                m \in {"load8", "load8.", "load16", "str8", "str8.", "str16"}}
      \cup {Macro(<<<<"pushr", 1>>, <<"popr", 2>>>>, 9, 300)}

(* The stack, the reduced accesses, the byte mode and the commands of the  *)
(* I/O are all in use when the timer fires.                                *)
Interruptible ==
    {Function("intDiv", <<15, 4>>), Function("intPow", <<3, 2>>), Function("printNum", <<42>>),
     Function("getch", <<>>), OnText("memcpy", <<TEXT, BUFFER, 3>>, <<97, 98, 99>>),
     OnText("strFlip", <<TEXT>>, <<97, 98, 99>>), OnText("print", <<TEXT>>, <<97, 98>>)}

Periods == {9, 11}

Timed == {[call EXCEPT !.every = period] : call \in Interruptible, period \in Periods}

MCCalls == Timed \cup Arithmetic \cup Memory \cup Strings \cup Printing \cup Lines
             \cup {Function("linked", <<>>)}

MCTimers == {<<>>} \cup {1 :> period : period \in Periods}
MCStdin == {65, EOF}

MCImages == {ImageOf(AssembledSwitch.bytes)} \cup {ImageOf(AssembledCalls[c].bytes) : c \in MCCalls}
=============================================================================
