-------------------------------- MODULE Boot --------------------------------
(***************************************************************************)
(* The start of the simulator: main.c, config.c and loader.c, from the     *)
(* command line to the call of reflet_run.                                 *)
(*                                                                         *)
(* main gives the arguments to parse_arg one by one; an argument is a step *)
(* here, and so is a line of a configuration file.  What the settings are, *)
(* and which RAM is allocated, depends on the order of the arguments.      *)
(***************************************************************************)
EXTENDS Words, SequencesExt

CONSTANTS
    RAM_SIZE,      \* the default of constants.h
    IntBits,       \* width of an int of the host
    Invocations,   \* the command lines and where they run: [argv, cwd]
    Files(_),      \* of a cwd: [text, bytes], functions on the readable names,
                   \* a file as the lines of fgets and as fgetc reads it
    Writable,      \* the names that fopen opens for writing
    Numerals       \* the strings sscanf reads as a number -> that number

VARIABLES
    run,           \* the member of Invocations that is run
    next,          \* index of the argument that parse_arg is given next
    reading,       \* the reading_* flags of parse_arg that are up
    ignore_first_line,
    rom,           \* index of the argument that was loaded, 0 for rom_loaded = false
    config,        \* vm->config
    log,           \* name of vm->debug->file, "" while debug is not enabled
    ram,           \* vm->ram; the empty function for NULL
    lines,         \* what fgets has not read yet of the configuration file
    phase          \* the function being executed, or how the process ended

vars == <<run, next, reading, ignore_first_line, rom, config, log, ram, lines,
          phase>>

argv == run.argv
text == Files(run.cwd).text
bytes == Files(run.cwd).bytes
Arg == argv[next]
Byte == 0..255

Flags == {"config_file", "word_size", "ram_size", "log_file"}

ConfigFile == {"--config-file", "-c"}
IgnoreFirstLine == {"--ignore-first-line", "-!"}
WordSize == {"--word-size", "-w"}
RamSize == {"--ram-size", "-r"}
ExtendedIo == {"--extended-io", "-x"}
Help == {"help", "--help", "-h"}
LogFile == {"--log-file", "-l"}

Options == ConfigFile \cup IgnoreFirstLine \cup WordSize \cup RamSize
             \cup ExtendedIo \cup Help \cup LogFile

Errors == {"RET_INVALID_ARGS", "RET_NO_VM", "RET_UNOPEN_FILE", "RET_CONFIG"}

(* A token of a line is a blank, a semicolon, a new line or a whole word.  *)
Kind(token) ==
    CASE token = " " -> "blank" [] token \in {";", "\n"} -> "end" [] OTHER -> "word"

WordsAt(line) == {k \in DOMAIN line : Kind(line[k]) = "word"}
WordsApart(line) == \A k \in WordsAt(line) : k + 1 \notin WordsAt(line)

ASSUME BootAssumption ==
    /\ RAM_SIZE \in Nat /\ IntBits \in Nat \ {0}
    /\ \A r \in Invocations :
         /\ r.argv \in Seq(STRING)
         /\ DOMAIN Files(r.cwd).text = DOMAIN Files(r.cwd).bytes
         /\ \A f \in DOMAIN Files(r.cwd).bytes :
              /\ Files(r.cwd).bytes[f] \in Seq(Byte)
              /\ Files(r.cwd).text[f] \in Seq(Seq(STRING))
              /\ \A n \in DOMAIN Files(r.cwd).text[f] : WordsApart(Files(r.cwd).text[f][n])
         /\ "" \notin DOMAIN Files(r.cwd).bytes
    /\ "" \notin Writable
    /\ \A n \in DOMAIN Numerals : Numerals[n] \in Nat

-----------------------------------------------------------------------------
(* reflet_init *)

START_CHAR == 4
IO_CMD == 2
IO_NOP == 0

WordMask(size) == IF 8 * size >= HostBits THEN HostMod - 1 ELSE 2^(8 * size) - 1

DefaultConfig ==
    [word_size |-> 8, word_size_byte |-> 1, word_mask |-> WordMask(1),
     ram_size |-> RAM_SIZE,
     tx_cmd |-> 0, tx_data |-> 1, rx_cmd |-> 2, rx_data |-> 3,
     enable |-> [i \in 0..3 |-> FALSE], freq |-> [i \in 0..3 |-> 0],
     extended_io |-> FALSE]

Init ==
    /\ run \in Invocations
    /\ next = 1
    /\ reading = {}
    /\ ignore_first_line = FALSE
    /\ rom = 0
    /\ config = DefaultConfig
    /\ log = ""
    /\ ram = <<>>
    /\ lines = <<>>
    /\ phase = "parse_arg"

(* Mutant: the mask is that of the word size before. *)
SetBytesOnly(c) == [c EXCEPT !.word_size_byte = c.word_size \div 8]

SET_WORD_SIZE(c) ==
    [c EXCEPT !.word_size_byte = c.word_size \div 8,
              !.word_mask = WordMask(c.word_size \div 8)]

(* A file opened for the log is empty from then on. *)
Readable(f) == f \in DOMAIN bytes \/ (f = log /\ log # "")
TextOf(f) == IF f = log THEN <<>> ELSE text[f]
BytesOf(f) == IF f = log THEN <<>> ELSE bytes[f]

-----------------------------------------------------------------------------
(* applyConfig *)

(* The automaton of preprocessLine. *)
LineStep ==
    [before_first  |-> [blank |-> "before_first",  end |-> "NO_LINE", word |-> "first"],
     first         |-> [blank |-> "before_second", end |-> "ERROR",   word |-> "first"],
     before_second |-> [blank |-> "before_second", end |-> "ERROR",   word |-> "second"],
     second        |-> [blank |-> "after",         end |-> "OK",      word |-> "second"],
     after         |-> [blank |-> "after",         end |-> "OK",      word |-> "ERROR"]]

Results == {"OK", "NO_LINE", "ERROR"}

(* Mutant: a third word is read as a part of the value. *)
preprocessLineLax(line) ==
    LET Step(now, token) ==
            IF now \in Results \/ (now = "after" /\ Kind(token) = "word") THEN now
            ELSE LineStep[now][Kind(token)]
        last == FoldLeft(Step, "before_first", line)
    IN  IF last \in Results THEN last ELSE "ERROR"

preprocessLine(line) ==
    LET Step(now, token) == IF now \in Results THEN now ELSE LineStep[now][Kind(token)]
        last == FoldLeft(Step, "before_first", line)
    IN  IF last \in Results THEN last ELSE "ERROR"

(* The first word of the line, and the next. *)
Key(line) == line[Min(WordsAt(line))]
Value(line) == line[Min(WordsAt(line) \ {Min(WordsAt(line))})]

IntFreq == [int_0_freq |-> 0, int_1_freq |-> 1, int_2_freq |-> 2, int_3_freq |-> 3]

Addressing == {"ram_size", "tx_cmd", "tx_data", "rx_cmd", "rx_data"}

Keys == Addressing \cup DOMAIN IntFreq \cup {"word_size", "extended_io"}

(* Mutant: any word size will do. *)
RefusedUnknown(line) ==
    ~ (Value(line) \in DOMAIN Numerals /\ Key(line) \in Keys)

(* What makes applyConfig refuse a line of two words other than a log.     *)
Refused(line) ==
    ~ /\ Value(line) \in DOMAIN Numerals
      /\ Key(line) \in Keys
      /\ Key(line) = "word_size" => Numerals[Value(line)] % 8 = 0

(* What an int keeps of a word_t. *)
ToInt(v) ==
    LET low == v % 2^IntBits
    IN  IF low < 2^(IntBits - 1) THEN low ELSE low - 2^IntBits

(* Mutant: the first period that is given prevails. *)
ApplyFirst(c, key, value) ==
    CASE key \in Addressing \cup {"word_size"} -> [c EXCEPT ![key] = value]
      [] key \in DOMAIN IntFreq /\ value # 0 /\ ~c.enable[IntFreq[key]] ->
             [c EXCEPT !.enable[IntFreq[key]] = TRUE, !.freq[IntFreq[key]] = ToInt(value)]
      [] key = "extended_io" -> [c EXCEPT !.extended_io = (value # 0)]
      [] OTHER -> c

(* A period of 0 leaves the interrupt as it was.  The test is of the word_t *)
(* that was read, and the int that is kept may be 0 or negative.           *)
Apply(c, key, value) ==
    CASE key \in Addressing \cup {"word_size"} -> [c EXCEPT ![key] = value]
      [] key \in DOMAIN IntFreq /\ value # 0 ->
             [c EXCEPT !.enable[IntFreq[key]] = TRUE, !.freq[IntFreq[key]] = ToInt(value)]
      [] key = "extended_io" -> [c EXCEPT !.extended_io = (value # 0)]
      [] OTHER -> c

(* exit(code), from inside of parse_arg or of what it calls. *)
Exit(code) ==
    /\ phase' = code
    /\ UNCHANGED <<config, log, ram, rom>>

(* A second log file, or one that cannot be opened, is refused. *)
OpenLog(f, continue) ==
    IF log # "" \/ f \notin Writable
    THEN Exit("RET_CONFIG")
    ELSE log' = f /\ phase' = continue /\ UNCHANGED <<config, ram, rom>>

ApplyLine ==
    /\ phase = "applyConfig" /\ lines # <<>>
    /\ lines' = Tail(lines)
    /\ LET line == Head(lines)
           result == preprocessLine(line)
       IN  \/ result = "ERROR" /\ Exit("RET_CONFIG")
           \/ result = "NO_LINE" /\ UNCHANGED <<config, log, ram, rom, phase>>
           \/ result = "OK" /\ Key(line) = "log" /\ OpenLog(Value(line), phase)
           \/ /\ result = "OK" /\ Key(line) # "log" /\ Refused(line)
              /\ Exit("RET_CONFIG")
           \/ /\ result = "OK" /\ Key(line) # "log" /\ ~Refused(line)
              /\ config' = Apply(config, Key(line), Numerals[Value(line)])
              /\ UNCHANGED <<log, ram, rom, phase>>
    /\ UNCHANGED <<run, next, reading, ignore_first_line>>

EndOfConfig ==
    /\ phase = "applyConfig" /\ lines = <<>>
    /\ config' = SET_WORD_SIZE(config)
    /\ phase' = "parse_arg"
    /\ UNCHANGED <<run, next, reading, ignore_first_line, rom, log, ram, lines>>

-----------------------------------------------------------------------------
(* parse_arg, when the argument is the value of the option before. *)

ConfigFileValue ==
    /\ "config_file" \in reading
    /\ reading' = reading \ {"config_file"}
    /\ IF Readable(Arg)
       THEN lines' = TextOf(Arg) /\ phase' = "applyConfig"
       ELSE UNCHANGED lines /\ phase' = "RET_UNOPEN_FILE"
    /\ UNCHANGED <<config, log, ram, rom>>

WordSizeValue ==
    /\ "word_size" \in reading /\ "config_file" \notin reading
    /\ reading' = reading \ {"word_size"}
    /\ IF Arg \notin DOMAIN Numerals
       THEN Exit("RET_CONFIG")
       ELSE IF Numerals[Arg] % 8 # 0
       THEN Exit("RET_CONFIG")
       ELSE /\ config' = SET_WORD_SIZE([config EXCEPT !.word_size = Numerals[Arg]])
            /\ UNCHANGED <<log, ram, rom, phase>>
    /\ UNCHANGED lines

(* Mutant: the flag stays up. *)
RamSizeAgain ==
    /\ "ram_size" \in reading /\ reading \cap {"config_file", "word_size"} = {}
    /\ UNCHANGED reading
    /\ IF Arg \notin DOMAIN Numerals
       THEN Exit("RET_CONFIG")
       ELSE /\ config' = [config EXCEPT !.ram_size = Numerals[Arg]]
            /\ UNCHANGED <<log, ram, rom, phase>>
    /\ UNCHANGED lines

RamSizeValue ==
    /\ "ram_size" \in reading /\ reading \cap {"config_file", "word_size"} = {}
    /\ reading' = reading \ {"ram_size"}
    /\ IF Arg \notin DOMAIN Numerals
       THEN Exit("RET_CONFIG")
       ELSE /\ config' = [config EXCEPT !.ram_size = Numerals[Arg]]
            /\ UNCHANGED <<log, ram, rom, phase>>
    /\ UNCHANGED lines

LogFileValue ==
    /\ reading = {"log_file"}
    /\ OpenLog(Arg, phase)
    /\ reading' = IF log' = log THEN reading ELSE {}
    /\ UNCHANGED lines

ReadValue ==
    /\ ConfigFileValue \/ WordSizeValue \/ RamSizeValue \/ LogFileValue
    /\ UNCHANGED ignore_first_line

-----------------------------------------------------------------------------
(* parse_arg, when it is an option, or the program. *)

Raise(flag) ==
    /\ reading' = reading \cup {flag}
    /\ UNCHANGED <<ignore_first_line, config, phase>>

ReadOption ==
    /\ \/ Arg \in ConfigFile /\ Raise("config_file")
       \/ Arg \in WordSize /\ Raise("word_size")
       \/ Arg \in RamSize /\ Raise("ram_size")
       \/ Arg \in LogFile /\ Raise("log_file")
       \/ Arg \in IgnoreFirstLine /\ ignore_first_line' = TRUE /\ UNCHANGED <<reading, config, phase>>
       \/ /\ Arg \in ExtendedIo
          /\ config' = [config EXCEPT !.extended_io = TRUE]
          /\ UNCHANGED <<reading, ignore_first_line, phase>>
       \/ Arg \in Help /\ phase' = "exit_0" /\ UNCHANGED <<reading, ignore_first_line, config>>
    /\ UNCHANGED <<rom, log, ram, lines>>

NEWLINE == 10

(* Mutant: the program begins with the new line. *)
BodyWithNewline(f) ==
    IF ~ignore_first_line THEN BytesOf(f)
    ELSE LET newlines == {k \in DOMAIN BytesOf(f) : BytesOf(f)[k] = NEWLINE}
         IN  IF newlines = {} THEN <<>>
             ELSE SubSeq(BytesOf(f), Min(newlines), Len(BytesOf(f)))

(* The file from which load_file reads: all of it, or what follows its     *)
(* first new line.                                                         *)
Body(f) ==
    IF ~ignore_first_line THEN BytesOf(f)
    ELSE LET newlines == {k \in DOMAIN BytesOf(f) : BytesOf(f)[k] = NEWLINE}
         IN  IF newlines = {} THEN <<>>
             ELSE SubSeq(BytesOf(f), Min(newlines) + 1, Len(BytesOf(f)))

Commands == {config.tx_cmd, config.rx_cmd}

Addresses == 0..(config.ram_size - 1)

(* Mutant: the command cells stay as the program has them. *)
ImageUnprepared(body) == [a \in Addresses |-> IF a < Len(body) THEN body[a + 1] ELSE 0]

(* Mutant: the RAM has the default size. *)
ImageDefault(body) ==
    [a \in 0..(RAM_SIZE - 1) |->
        IF a < Len(body) /\ body[a + 1] # 0 THEN body[a + 1]
        ELSE IF a \in Commands THEN 1
        ELSE 0]

(* calloc, the program, and the command cells that were 0. *)
Image(body) ==
    [a \in Addresses |->
        IF a < Len(body) /\ body[a + 1] # 0 THEN body[a + 1]
        ELSE IF a \in Commands THEN 1
        ELSE 0]

(* Mutant: a program as long as the RAM is loaded. *)
FitsExactly(body) == Len(body) <= config.ram_size

(* The end of the file must be read inside of the loop on the RAM. *)
Fits(body) == Len(body) < config.ram_size

(* A command address outside of the RAM is read, and may be written: that  *)
(* kills the process or is not seen.                                       *)
LoadProgram ==
    /\ IF Readable(Arg) /\ Fits(Body(Arg))
       THEN /\ ram' = Image(Body(Arg))
            /\ rom' = next
            /\ phase' \in IF Commands \subseteq Addresses THEN {phase} ELSE {phase, "killed"}
       ELSE phase' = "RET_NO_VM" /\ UNCHANGED <<ram, rom>>
    /\ UNCHANGED <<config, log, reading, ignore_first_line, lines>>

ReadProgram == Arg \notin Options /\ rom = 0 /\ LoadProgram

(* Only a warning. *)
Unused ==
    /\ Arg \notin Options /\ rom # 0
    /\ UNCHANGED <<rom, config, log, ram, reading, ignore_first_line, lines, phase>>

ParseArg ==
    /\ phase = "parse_arg" /\ next <= Len(argv)
    /\ next' = next + 1
    /\ \/ reading # {} /\ ReadValue
       \/ reading = {} /\ (ReadOption \/ ReadProgram \/ Unused)
    /\ UNCHANGED run

(* The end of main: prepare_extended_io begins reflet_run. *)
Run ==
    /\ phase = "parse_arg" /\ next > Len(argv)
    /\ IF rom = 0 THEN phase' = "RET_INVALID_ARGS" /\ UNCHANGED ram
       ELSE IF ~config.extended_io THEN phase' = "reflet_run" /\ UNCHANGED ram
       ELSE IF IO_CMD \in DOMAIN ram
       THEN phase' = "reflet_run" /\ ram' = [ram EXCEPT ![IO_CMD] = IO_NOP]
       ELSE phase' \in {"reflet_run", "killed"} /\ UNCHANGED ram
    /\ UNCHANGED <<run, next, reading, ignore_first_line, rom, config, log, lines>>

Ended ==
    /\ phase \in Errors \cup {"exit_0", "killed", "reflet_run"}
    /\ UNCHANGED vars

Next == ParseArg \/ ApplyLine \/ EndOfConfig \/ Run \/ Ended

Spec == Init /\ [][Next]_vars
=============================================================================
