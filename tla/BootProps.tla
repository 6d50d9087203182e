----------------------------- MODULE BootProps -----------------------------
(***************************************************************************)
(* The properties of Boot.  What the command line means is defined here a  *)
(* second time, from all of its arguments at once and not one by one.      *)
(***************************************************************************)
EXTENDS Boot

Final == Errors \cup {"exit_0", "killed", "reflet_run"}

Settings == Addressing \cup {"word_size"}

(* Types, and what the code takes for granted of the values: a word size   *)
(* is a number of bytes (main.c:59, config.c:57), a period is an int, and  *)
(* an interrupt that has one is enabled.                                   *)
TypeOK ==
    /\ next \in 1..(Len(argv) + 1)
    /\ reading \subseteq Flags
    /\ ignore_first_line \in BOOLEAN
    /\ rom \in 0..(next - 1)
    /\ \A key \in Settings : config[key] \in Nat
    /\ config.word_size % 8 = 0
    /\ config.extended_io \in BOOLEAN
    /\ \A i \in 0..3 : /\ config.freq[i] \in -(2^(IntBits - 1))..(2^(IntBits - 1) - 1)
                       /\ config.freq[i] # 0 => config.enable[i]
    /\ log \in Writable \cup {""}
    /\ \A a \in DOMAIN ram : ram[a] \in Byte
    /\ phase \in Final \cup {"parse_arg", "applyConfig"}

-----------------------------------------------------------------------------
(* The meaning of a line of a configuration file. *)

Ends(line) == {k \in DOMAIN line : Kind(line[k]) = "end"}

(* The words before the first semicolon or new line. *)
Uncommented(line) == {k \in WordsAt(line) : \A e \in Ends(line) : k < e}

(* Two words make a setting and none an empty line; anything else is an    *)
(* error, and so is the last line of a file that does not end it.          *)
Meaning(line) ==
    IF Ends(line) = {} THEN "ERROR"
    ELSE CASE Cardinality(Uncommented(line)) = 2 -> "OK"
           [] Cardinality(Uncommented(line)) = 0 -> "NO_LINE"
           [] OTHER -> "ERROR"

KeyMeant(line) == line[Min(Uncommented(line))]
ValueMeant(line) == line[Max(Uncommented(line))]

(* The automaton of preprocessLine accepts the lines its comment describes *)
(* (config.c:126), whatever blanks and comments they have.                 *)
LinesRead ==
    phase = "applyConfig" /\ lines # <<>> =>
        LET line == Head(lines)
        IN  /\ preprocessLine(line) = Meaning(line)
            /\ Meaning(line) = "OK" =>
                 Key(line) = KeyMeant(line) /\ Value(line) = ValueMeant(line)

-----------------------------------------------------------------------------
(* The meaning of a command line. *)

Valued == ConfigFile \cup WordSize \cup RamSize \cup LogFile

(* Whether argument p is the value of the option before it. *)
IsValue ==
    LET v[p \in DOMAIN argv] == p > 1 /\ ~v[p - 1] /\ argv[p - 1] \in Valued
    IN  v

ValueOf(p, options) == IsValue[p] /\ argv[p - 1] \in options
IsOption(p, options) == ~IsValue[p] /\ argv[p] \in options

(* The first argument that is neither an option nor a value, if any. *)
Programs == {p \in DOMAIN argv : ~IsValue[p] /\ argv[p] \notin Options}
Program == Min(Programs)

(* A line gives a value to a key; a period of 0 is none (config.c:73). *)
Gives(line, key) ==
    /\ Meaning(line) = "OK" /\ KeyMeant(line) = key
    /\ key \in DOMAIN IntFreq => Numerals[ValueMeant(line)] # 0

(* Argument p opens the log, itself or by a line of its file. *)
OpensLog(p) ==
    \/ ValueOf(p, LogFile)
    \/ /\ ValueOf(p, ConfigFile) /\ argv[p] \in DOMAIN text
       /\ \E k \in DOMAIN text[argv[p]] : Gives(text[argv[p]][k], "log")

(* A file is empty once it is the log, for the arguments that come later.  *)
Emptied(p) == argv[p] = log /\ \E q \in 1..(p - 1) : OpensLog(q)
TextAt(p) == IF Emptied(p) THEN <<>> ELSE text[argv[p]]
BytesAt(p) == IF Emptied(p) THEN <<>> ELSE bytes[argv[p]]

(* The lines of the configuration file p that give a value to a key. *)
LinesFor(p, key) == {k \in DOMAIN TextAt(p) : Gives(TextAt(p)[k], key)}

ArgumentGives(p, key) ==
    \/ ValueOf(p, ConfigFile) /\ LinesFor(p, key) # {}
    \/ key = "word_size" /\ ValueOf(p, WordSize)
    \/ key = "ram_size" /\ ValueOf(p, RamSize)
    \/ key = "extended_io" /\ IsOption(p, ExtendedIo)

(* What argument p gives to a key: the last line of a file prevails. *)
Given(p, key) ==
    CASE ValueOf(p, ConfigFile) -> Numerals[ValueMeant(TextAt(p)[Max(LinesFor(p, key))])]
      [] IsOption(p, ExtendedIo) -> 1
      [] OTHER -> Numerals[argv[p]]

Default(key) == IF key \in Settings THEN DefaultConfig[key] ELSE 0

(* A setting as it stands after n arguments. *)
After(key, n) ==
    LET givers == {p \in 1..n : ArgumentGives(p, key)}
    IN  IF givers = {} THEN Default(key) ELSE Given(Max(givers), key)

(* "The last arguments given to when calling the simulator will prevail"   *)
(* (simulator/README.md:67), for every setting and wherever it was given.  *)
(* Of the periods, the last that is not 0 does (config.c:73): a file cannot *)
(* disable an interrupt that another one enabled.  What prevails is cut to *)
(* an int (reflet.h:17): an interrupt may be enabled with a period of 0 or *)
(* less, and is then raised at every instruction.                          *)
LastPrevails ==
    phase = "reflet_run" =>
        /\ \A key \in Settings : config[key] = After(key, Len(argv))
        /\ config.extended_io = (After("extended_io", Len(argv)) # 0)
        /\ \A key \in DOMAIN IntFreq :
             /\ config.enable[IntFreq[key]] = (After(key, Len(argv)) # 0)
             /\ config.freq[IntFreq[key]] = ToInt(After(key, Len(argv)))

(* The bytes that the program of argument p is made of: -! cuts it only     *)
(* when it comes before (main.c:102), and a file opened as the log is empty. *)
BytesGiven(p) ==
    LET file == BytesAt(p)
        kept == {k \in DOMAIN file : \E j \in 1..(k - 1) : file[j] = NEWLINE}
    IN  IF \E q \in 1..(p - 1) : IsOption(q, IgnoreFirstLine)
        THEN [k \in 1..Cardinality(kept) |-> file[Len(file) - Cardinality(kept) + k]]
        ELSE file

ProgramGiven == BytesGiven(Program)

CellOf(image, a) == IF a < Len(image) THEN image[a + 1] ELSE 0

(* The program that runs is the first argument that is neither an option   *)
(* nor the value of one, in a RAM of the size given up to there, followed  *)
(* by zeros; the loader and prepare_extended_io change command cells only. *)
(* Without such an argument nothing runs.                                  *)
ProgramRuns ==
    /\ phase = "RET_INVALID_ARGS" => Programs = {}
    /\ phase = "reflet_run" =>
         /\ Programs # {}
         /\ DOMAIN ram = 0..(After("ram_size", Program - 1) - 1)
         /\ Len(ProgramGiven) < After("ram_size", Program - 1)
         /\ \A a \in DOMAIN ram :
              \/ ram[a] = CellOf(ProgramGiven, a)
              \/ /\ a \in {After("tx_cmd", Program - 1), After("rx_cmd", Program - 1)}
                 /\ CellOf(ProgramGiven, a) = 0 /\ ram[a] = 1
              \/ config.extended_io /\ a = IO_CMD /\ ram[a] = IO_NOP

-----------------------------------------------------------------------------
(* Agreements between the parts of the machine.  They are also proved, in  *)
(* Boot_proofs.                                                            *)

NotAfterProgram(options) == \A p \in (rom + 1)..(next - 1) : argv[p] \notin options

(* The RAM that is allocated (reflet.c:74) has the size against which      *)
(* reflet_run and every access are checked, unless a size or a             *)
(* configuration comes after the program (main.c:69): the RAM is not       *)
(* allocated again then, and an access beyond it passes the check.         *)
RamAsConfigured ==
    rom # 0 /\ NotAfterProgram(RamSize \cup ConfigFile)
        => DOMAIN ram = 0..(config.ram_size - 1)

(* "Checking that the io cmd address are not empty to prevent unwanted io" *)
(* (loader.c:59): when the first instruction runs no command is pending,   *)
(* unless a configuration after the program moved the cells or the cells   *)
(* are outside of the RAM.                                                 *)
NothingPending ==
    phase = "reflet_run" /\ NotAfterProgram(ConfigFile) =>
        IF config.extended_io
        THEN IO_CMD \in DOMAIN ram => ram[IO_CMD] = IO_NOP
        ELSE \A a \in Commands \cap DOMAIN ram : ram[a] # 0

(* A program that has its magic word begins inside of the RAM: this is what *)
(* the byte that must remain free (loader.c:35) is for, since reflet_run   *)
(* compares the PC with the size only after the first instruction          *)
(* (reflet.c:107).                                                         *)
StartsInRam ==
    phase = "reflet_run" /\ Len(ProgramGiven) >= START_CHAR => START_CHAR \in DOMAIN ram

(* Whenever an argument is read and when the machine runs, the size in     *)
(* bytes and the mask are those of the word size (config.h:11): neither -w *)
(* nor a configuration leaves them behind.                                 *)
WordSizeAgrees ==
    phase \in {"parse_arg", "reflet_run"} =>
        /\ config.word_size_byte = config.word_size \div 8
        /\ config.word_mask = WordMask(config.word_size \div 8)

(* At most one option awaits its value, and it is the one before the next  *)
(* argument (main.c:42): a flag that is not taken down would read the      *)
(* program as a value.                                                     *)
OptionOf == [config_file |-> ConfigFile, word_size |-> WordSize,
             ram_size |-> RamSize, log_file |-> LogFile]

OneAwaited ==
    phase = "parse_arg" =>
        \A flag \in reading :
            /\ reading = {flag}
            /\ next > 1 /\ argv[next - 1] \in OptionOf[flag]
=============================================================================
