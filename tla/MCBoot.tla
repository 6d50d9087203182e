------------------------------- MODULE MCBoot -------------------------------
(***************************************************************************)
(* Command lines and files for Boot.                                       *)
(***************************************************************************)
EXTENDS BootProps

(* The words of a configuration, and those that scan as a number. *)
MCNumerals == [n \in {"0", "2", "4", "5", "8", "12", "16", "24"} |->
    CASE n = "0" -> 0 [] n = "2" -> 2 [] n = "4" -> 4 [] n = "5" -> 5 [] n = "8" -> 8
      [] n = "12" -> 12 [] n = "16" -> 16 [] n = "24" -> 24]

Line(key, value) == <<key, " ", value, ";", "\n">>

Good ==
    <<<<";", "\n">>, Line("word_size", "16"), Line("ram_size", "8"),
      <<" ", "tx_cmd", " ", "5", " ", "\n">>, Line("rx_cmd", "12"),
      Line("int_1_freq", "5"), Line("extended_io", "0")>>

Other ==
    <<Line("int_1_freq", "0"), Line("int_3_freq", "8"), Line("ram_size", "12"),
      Line("tx_data", "8"), Line("rx_data", "5"), Line("extended_io", "5"),
      Line("log", "b.log"), <<"\n">>>>

BadSize == <<Line("ram_size", "16"), Line("word_size", "12")>>

(* Five bytes beyond the magic word, among which the start of a program;   *)
(* its first line is ended in the middle.                                  *)
Code == <<65, 83, 82, 77, 232, 0, NEWLINE, 8>>

Source == [good |-> Good, other |-> Other, bad |-> BadSize,
           prog |-> <<<<"ASRM">>>>, magic |-> <<<<"ASRM">>>>, empty |-> <<>>]
Binary == [good |-> <<119>>, other |-> <<105>>, bad |-> <<114>>,
           prog |-> Code, magic |-> SubSeq(Code, 1, 4), empty |-> <<>>]

(* Options with their values, alone or in the wrong place. *)
Units ==
    {<<"-c", "good">>, <<"--config-file", "other">>, <<"-w", "16">>,
     <<"--word-size", "0">>, <<"-r", "2">>, <<"--ram-size", "4">>, <<"-x">>,
     <<"-l", "prog">>, <<"-!">>, <<"prog">>, <<"magic">>, <<"empty">>, <<"b.log">>}

Misplaced == {"-c", "-w", "-r", "-l", "-x", "-h", "bad", "prog", "12", "a.log"}

ArgvOf(n) ==
    UNION {{FlattenSeq(u) : u \in [1..k -> Units]} : k \in 0..n}
      \cup UNION {[1..k -> Misplaced] : k \in 0..n}

(* Every line of a few tokens, words being apart. *)
Tokens == {" ", ";", "\n", "ram_size", "5"}

LinesOf(n) ==
    {line \in UNION {[1..k -> Tokens] : k \in 1..n} : WordsApart(line)}

(* Files for one configuration each: a key twice, periods, a second log.   *)
Doubles ==
    {<<Line(key, v), Line(key, w)>> :
        key \in Keys \cup {"log", "unknown"}, v \in {"0", "8", "12"}, w \in {"0", "16", "b.log"}}

Configured(file) ==
    [text |-> [good |-> Good, line |-> file, prog |-> <<>>],
     bytes |-> [good |-> <<>>, line |-> <<>>, prog |-> SubSeq(Code, 1, 5)]]

MCFiles(cwd) ==
    IF cwd = <<>> THEN [text |-> Source, bytes |-> Binary] ELSE Configured(cwd)

MCInvocations ==
    {[argv |-> a, cwd |-> <<>>] : a \in ArgvOf(4)}
      \cup {[argv |-> <<"-c", "good", "-c", "line", "prog", "-w", "8">>, cwd |-> file] :
               file \in {<<line>> : line \in LinesOf(6)} \cup Doubles}
=============================================================================
