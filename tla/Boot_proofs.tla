---------------------------- MODULE Boot_proofs ----------------------------
(***************************************************************************)
(* The start of the simulator, for every command line, every configuration *)
(* file and every program: the parts of the machine that runs agree.       *)
(***************************************************************************)
EXTENDS BootProps, Words_proofs

Fields == DOMAIN DefaultConfig

(* What ties the flags of parse_arg, the program and the configuration     *)
(* file being applied to the arguments that have been read.                *)
Places ==
    /\ next \in Nat /\ rom \in Nat /\ rom < next
    /\ DOMAIN config = Fields
    /\ rom # 0 => argv[rom] \notin Options
    /\ phase = "applyConfig" =>
         /\ reading = {}
         /\ next > 2 /\ argv[next - 2] \in ConfigFile /\ rom < next - 1

(* The command cells are prepared as soon as the program is loaded. *)
Prepared ==
    phase = "parse_arg" /\ rom # 0 /\ NotAfterProgram(ConfigFile) =>
        \A a \in Commands \cap DOMAIN ram : ram[a] # 0

(* The inductive invariant. *)
IInv == /\ Places /\ OneAwaited /\ WordSizeAgrees
        /\ RamAsConfigured /\ Prepared /\ NothingPending

-----------------------------------------------------------------------------
(* Facts about the constants of the code. *)

LEMMA DefaultFields ==
    /\ {"word_size", "word_size_byte", "word_mask", "ram_size", "tx_cmd",
        "rx_cmd", "extended_io"} \subseteq Fields
    /\ DefaultConfig.word_size = 8
    /\ DefaultConfig.word_size_byte = 1
    /\ DefaultConfig.word_mask = WordMask(1)
BY DEF Fields, DefaultConfig

LEMMA OptionsOfFlags ==
    ASSUME NEW flag \in Flags
    PROVE  OptionOf[flag] \subseteq Options
BY DEF Flags, OptionOf, Options

(* Mask and size in bytes after SET_WORD_SIZE. *)
LEMMA SetWordSize ==
    ASSUME NEW c, DOMAIN c = Fields
    PROVE  /\ DOMAIN SET_WORD_SIZE(c) = Fields
           /\ SET_WORD_SIZE(c).word_size = c.word_size
           /\ SET_WORD_SIZE(c).ram_size = c.ram_size
           /\ SET_WORD_SIZE(c).tx_cmd = c.tx_cmd
           /\ SET_WORD_SIZE(c).rx_cmd = c.rx_cmd
           /\ SET_WORD_SIZE(c).word_size_byte = c.word_size \div 8
           /\ SET_WORD_SIZE(c).word_mask = WordMask(c.word_size \div 8)
BY DefaultFields DEF SET_WORD_SIZE

(* A line changes no field's name. *)
LEMMA ApplyFields ==
    ASSUME NEW c, DOMAIN c = Fields, NEW key, NEW value
    PROVE  DOMAIN Apply(c, key, value) = Fields
BY DEF Apply
-----------------------------------------------------------------------------
(* The arguments after the program. *)

(* What is not among the arguments that follow the program once one more   *)
(* is read was not among them before.                                      *)
LEMMA StillAfter ==
    ASSUME IInv, NEW options, run' = run, rom' = rom,
           next' = next + 1, NotAfterProgram(options)'
    PROVE  NotAfterProgram(options)
BY DEF NotAfterProgram, argv, IInv, Places

(* The option that awaits a value comes after the program, if there is one. *)
LEMMA AwaitedAfterProgram ==
    ASSUME IInv, phase = "parse_arg", NEW flag \in reading \cap Flags
    PROVE  /\ reading = {flag}
           /\ next - 1 \in (rom + 1)..(next - 1)
           /\ argv[next - 1] \in OptionOf[flag]
<1>1. /\ reading = {flag}
      /\ next > 1 /\ argv[next - 1] \in OptionOf[flag]
  BY DEF IInv, OneAwaited
<1>2. argv[next - 1] \in Options
  BY <1>1, OptionsOfFlags
<1>3. next \in Nat /\ rom \in Nat /\ rom < next /\ rom # next - 1
  BY <1>1, <1>2 DEF IInv, Places
<1> QED
  BY <1>1, <1>3

(* An exit reads nothing more: no conjunct is about a process that ended.  *)
LEMMA Exits ==
    ASSUME IInv, UNCHANGED <<run, rom, config, ram>>, next' \in {next, next + 1},
           phase' \in Final \ {"reflet_run"},
           rom # 0 /\ NotAfterProgram(RamSize \cup ConfigFile)'
               => NotAfterProgram(RamSize \cup ConfigFile)
    PROVE  IInv'
<1>1. phase' \notin {"parse_arg", "applyConfig", "reflet_run"}
  BY DEF Final, Errors
<1>2. Places'
  BY <1>1 DEF IInv, Places, argv
<1>3. RamAsConfigured'
  BY DEF IInv, RamAsConfigured
<1> QED
  BY <1>1, <1>2, <1>3
     DEF IInv, OneAwaited, WordSizeAgrees, Prepared, NothingPending

-----------------------------------------------------------------------------
(* The steps. *)

LEMMA InitInv == Init => IInv
<1> SUFFICES ASSUME Init PROVE IInv
  OBVIOUS
<1>1. WordSizeAgrees
  <2>1. 8 \div 8 = 1
    OBVIOUS
  <2> QED
    BY <2>1, DefaultFields DEF Init, WordSizeAgrees
<1>2. /\ next = 1 /\ reading = {} /\ rom = 0 /\ phase = "parse_arg"
      /\ config = DefaultConfig
  BY DEF Init
<1>3. Places
  BY <1>2 DEF Places, Fields
<1>4. OneAwaited
  BY <1>2 DEF OneAwaited
<1>5. RamAsConfigured /\ Prepared
  BY <1>2 DEF RamAsConfigured, Prepared
<1>6. NothingPending
  BY <1>2 DEF NothingPending
<1> QED
  BY <1>1, <1>3, <1>4, <1>5, <1>6 DEF IInv

(* A value is read: what it sets was asked for after the program. *)
LEMMA ValueStep ==
    ASSUME IInv, phase = "parse_arg", next' = next + 1, UNCHANGED run,
           reading # {}, ReadValue
    PROVE  IInv'
<1> USE DEF IInv
<1>a. /\ next \in Nat /\ rom \in Nat /\ rom < next /\ DOMAIN config = Fields
      /\ argv' = argv
  BY DEF Places, argv
<1>b. \A options : NotAfterProgram(options)' /\ rom' = rom => NotAfterProgram(options)
  BY StillAfter
<1>1. CASE ConfigFileValue
  <2>1. /\ reading = {"config_file"} /\ reading' = {}
        /\ next - 1 \in (rom + 1)..(next - 1)
        /\ argv[next - 1] \in ConfigFile
    BY <1>1, AwaitedAfterProgram DEF ConfigFileValue, Flags, OptionOf
  <2>2. UNCHANGED <<config, ram, rom>> /\ phase' \in {"applyConfig", "RET_UNOPEN_FILE"}
    BY <1>1 DEF ConfigFileValue
  <2>3. CASE phase' = "RET_UNOPEN_FILE"
    BY <1>b, <2>2, <2>3, Exits DEF Final, Errors
  <2>4. CASE phase' = "applyConfig"
    <3>1. Places'
      BY <1>a, <2>1, <2>2, <2>4 DEF Places
    <3>2. ~NotAfterProgram(ConfigFile)' /\ ~NotAfterProgram(RamSize \cup ConfigFile)'
      BY <1>a, <2>1, <2>2 DEF NotAfterProgram
    <3> QED
      BY <2>4, <3>1, <3>2
         DEF OneAwaited, WordSizeAgrees, RamAsConfigured, Prepared, NothingPending
  <2> QED
    BY <2>2, <2>3, <2>4
<1>2. CASE WordSizeValue
  <2>1. reading = {"word_size"} /\ reading' = {} /\ UNCHANGED <<ram, rom>>
    BY <1>2, AwaitedAfterProgram DEF WordSizeValue, Flags, Exit
  <2>2. CASE Exit("RET_CONFIG")
    BY <1>b, <2>1, <2>2, Exits DEF Final, Errors, Exit
  <2>3. CASE /\ config' = SET_WORD_SIZE([config EXCEPT !.word_size = Numerals[Arg]])
             /\ UNCHANGED phase
    <3> DEFINE c == [config EXCEPT !.word_size = Numerals[Arg]]
    <3>1. /\ DOMAIN c = Fields /\ c.ram_size = config.ram_size
          /\ c.tx_cmd = config.tx_cmd /\ c.rx_cmd = config.rx_cmd
      BY <1>a, DefaultFields
    <3>2. /\ DOMAIN config' = Fields /\ config'.ram_size = config.ram_size
          /\ Commands' = Commands
          /\ config'.word_size_byte = config'.word_size \div 8
          /\ config'.word_mask = WordMask(config'.word_size \div 8)
      BY <2>3, <3>1, SetWordSize DEF Commands
    <3> QED
      BY <1>a, <1>b, <2>1, <2>3, <3>2
         DEF Places, OneAwaited, WordSizeAgrees, RamAsConfigured, Prepared, NothingPending
  <2> QED
    BY <1>2, <2>2, <2>3 DEF WordSizeValue
<1>3. CASE RamSizeValue
  <2>1. /\ reading = {"ram_size"} /\ reading' = {} /\ UNCHANGED <<ram, rom>>
        /\ next - 1 \in (rom + 1)..(next - 1)
        /\ argv[next - 1] \in RamSize
    BY <1>3, AwaitedAfterProgram DEF RamSizeValue, Flags, Exit, OptionOf
  <2>2. CASE Exit("RET_CONFIG")
    BY <1>b, <2>1, <2>2, Exits DEF Final, Errors, Exit
  <2>3. CASE config' = [config EXCEPT !.ram_size = Numerals[Arg]] /\ UNCHANGED phase
    <3>1. ~NotAfterProgram(RamSize \cup ConfigFile)'
      BY <1>a, <2>1 DEF NotAfterProgram
    <3>2. /\ DOMAIN config' = Fields /\ Commands' = Commands
          /\ config'.word_size = config.word_size
          /\ config'.word_size_byte = config.word_size_byte
          /\ config'.word_mask = config.word_mask
      BY <1>a, <2>3, DefaultFields DEF Commands
    <3>3. phase' = "parse_arg"
      BY <2>3
    <3>4. Places' /\ OneAwaited' /\ WordSizeAgrees' /\ RamAsConfigured' /\ NothingPending'
      BY <1>a, <2>1, <3>1, <3>2, <3>3
         DEF Places, OneAwaited, WordSizeAgrees, RamAsConfigured, NothingPending
    <3>5. Prepared'
      BY <1>b, <2>1, <3>2, <3>3 DEF Prepared
    <3> QED
      BY <3>4, <3>5
  <2> QED
    BY <1>3, <2>2, <2>3 DEF RamSizeValue
<1>4. CASE LogFileValue
  <2>1. UNCHANGED <<config, ram, rom>>
    BY <1>4 DEF LogFileValue, OpenLog, Exit
  <2>2. CASE phase' = "RET_CONFIG"
    BY <1>b, <2>1, <2>2, Exits DEF Final, Errors
  <2>3. CASE phase' # "RET_CONFIG"
    <3>1. phase' = phase /\ log = "" /\ Arg \in Writable /\ log' = Arg
      BY <1>4, <2>3 DEF LogFileValue, OpenLog, Exit
    <3>2. reading' = {}
      BY <1>4, <3>1, BootAssumption DEF LogFileValue
    <3>3. phase' = "parse_arg" /\ Commands' = Commands
      BY <2>1, <3>1 DEF Commands
    <3>4. Places'
      BY <1>a, <2>1, <3>3 DEF Places
    <3>5. OneAwaited' /\ NothingPending'
      BY <3>2, <3>3 DEF OneAwaited, NothingPending
    <3>6. WordSizeAgrees'
      BY <2>1, <3>3 DEF WordSizeAgrees
    <3>7. RamAsConfigured'
      BY <1>b, <2>1 DEF RamAsConfigured
    <3>8. Prepared'
      BY <1>b, <2>1, <3>3 DEF Prepared
    <3> QED
      BY <3>4, <3>5, <3>6, <3>7, <3>8
  <2> QED
    BY <2>2, <2>3
<1> QED
  BY <1>1, <1>2, <1>3, <1>4 DEF ReadValue

(* An option raises its flag, or sets what no conjunct relates. *)
LEMMA OptionStep ==
    ASSUME IInv, phase = "parse_arg", next' = next + 1, UNCHANGED run,
           reading = {}, ReadOption
    PROVE  IInv'
<1> USE DEF IInv
<1>a. /\ next \in Nat /\ rom \in Nat /\ rom < next /\ DOMAIN config = Fields
      /\ argv' = argv /\ UNCHANGED <<rom, ram>> /\ Arg = argv[next]
  BY DEF Places, argv, ReadOption, Arg
<1>b. \A options : NotAfterProgram(options)' => NotAfterProgram(options)
  BY <1>a, StillAfter
<1>1. CASE Arg \in Help /\ phase' = "exit_0" /\ UNCHANGED config
  BY <1>a, <1>b, <1>1, Exits DEF Final, Errors
<1>2. CASE phase' = phase
  <2>1. /\ DOMAIN config' = Fields /\ Commands' = Commands
        /\ config'.ram_size = config.ram_size
        /\ config'.word_size = config.word_size
        /\ config'.word_size_byte = config.word_size_byte
        /\ config'.word_mask = config.word_mask
    BY <1>a, <1>2, DefaultFields DEF ReadOption, Raise, Commands
  <2>2. \/ reading' = {}
        \/ \E flag \in Flags : reading' = {flag} /\ Arg \in OptionOf[flag]
    BY <1>2 DEF ReadOption, Raise, OptionOf, Flags
  <2>3. Places'
    BY <1>a, <1>2, <2>1 DEF Places
  <2>4. OneAwaited'
    BY <1>a, <2>2 DEF OneAwaited
  <2>5. WordSizeAgrees' /\ NothingPending'
    BY <1>2, <2>1 DEF WordSizeAgrees, NothingPending
  <2>6. RamAsConfigured' /\ Prepared'
    BY <1>a, <1>b, <1>2, <2>1 DEF RamAsConfigured, Prepared
  <2> QED
    BY <2>3, <2>4, <2>5, <2>6
<1> QED
  BY <1>1, <1>2 DEF ReadOption, Raise

(* The program is loaded: the RAM has the size of the moment, and its      *)
(* command cells are not 0.                                                *)
LEMMA ProgramStep ==
    ASSUME IInv, phase = "parse_arg", next' = next + 1, UNCHANGED run,
           reading = {}, ReadProgram
    PROVE  IInv'
<1> USE DEF IInv
<1>a. /\ next \in Nat /\ rom = 0 /\ 0 < next /\ DOMAIN config = Fields
      /\ argv' = argv /\ config' = config /\ reading' = {}
      /\ Arg = argv[next] /\ Arg \notin Options
  BY DEF Places, argv, Arg, ReadProgram, LoadProgram
<1>1. CASE rom' = 0 /\ phase' = "RET_NO_VM" /\ UNCHANGED ram
  BY <1>a, <1>1, Exits DEF Final, Errors
<1>2. CASE /\ rom' = next /\ phase' \in {phase, "killed"}
           /\ ram' = Image(Body(Arg))
  <2>1. DOMAIN ram' = 0..(config.ram_size - 1)
    BY <1>2 DEF Image, Addresses
  <2>2. \A a \in Commands \cap DOMAIN ram' : ram'[a] # 0
    BY <1>2 DEF Image
  <2>3. phase' \in {"parse_arg", "killed"}
    BY <1>2
  <2>4. Places' /\ OneAwaited'
    BY <1>a, <1>2, <2>3 DEF Places, OneAwaited
  <2>5. WordSizeAgrees' /\ RamAsConfigured' /\ NothingPending'
    BY <1>a, <2>1, <2>3 DEF WordSizeAgrees, RamAsConfigured, NothingPending
  <2>6. Prepared'
    BY <1>a, <2>2 DEF Prepared, Commands
  <2> QED
    BY <2>4, <2>5, <2>6
<1> QED
  BY <1>a, <1>1, <1>2 DEF ReadProgram, LoadProgram

(* An argument that is not used. *)
LEMMA UnusedStep ==
    ASSUME IInv, phase = "parse_arg", next' = next + 1, UNCHANGED run,
           reading = {}, Unused
    PROVE  IInv'
<1> USE DEF IInv
<1>a. /\ next \in Nat /\ rom \in Nat /\ rom < next /\ DOMAIN config = Fields
      /\ argv' = argv /\ UNCHANGED <<rom, config, ram, reading, phase>>
  BY DEF Places, argv, Unused
<1>b. \A options : NotAfterProgram(options)' => NotAfterProgram(options)
  BY <1>a, StillAfter
<1>1. Places' /\ OneAwaited' /\ WordSizeAgrees' /\ NothingPending'
  BY <1>a DEF Places, OneAwaited, WordSizeAgrees, NothingPending
<1>2. RamAsConfigured' /\ Prepared'
  BY <1>a, <1>b DEF RamAsConfigured, Prepared, Commands
<1> QED
  BY <1>1, <1>2

(* A line of a configuration: its option came after the program.           *)
LEMMA ConfigLineStep ==
    ASSUME IInv, ApplyLine
    PROVE  IInv'
<1> USE DEF IInv
<1>a. /\ next \in Nat /\ rom \in Nat /\ DOMAIN config = Fields
      /\ reading = {} /\ next > 2 /\ argv[next - 2] \in ConfigFile /\ rom < next - 1
      /\ rom # 0 => argv[rom] \notin Options
      /\ argv' = argv /\ UNCHANGED <<run, next, reading, rom, ram>>
      /\ phase = "applyConfig" /\ phase' \in {"applyConfig", "RET_CONFIG"}
  BY DEF Places, argv, ApplyLine, OpenLog, Exit
<1>1. rom # next - 2
  BY <1>a DEF Options
<1>2. next - 2 \in (rom + 1)..(next - 1)
  BY <1>a, <1>1
<1>3. ~NotAfterProgram(RamSize \cup ConfigFile)'
  BY <1>a, <1>2 DEF NotAfterProgram
<1>4. DOMAIN config' = Fields
  BY <1>a, ApplyFields DEF ApplyLine, OpenLog, Exit
<1>5. Places'
  BY <1>a, <1>4 DEF Places
<1> QED
  BY <1>a, <1>3, <1>5
     DEF OneAwaited, WordSizeAgrees, RamAsConfigured, Prepared, NothingPending

(* The end of a configuration computes what follows from the word size.    *)
LEMMA EndStep ==
    ASSUME IInv, EndOfConfig
    PROVE  IInv'
<1> USE DEF IInv
<1>a. /\ next \in Nat /\ rom \in Nat /\ DOMAIN config = Fields
      /\ reading = {} /\ next > 2 /\ argv[next - 2] \in ConfigFile /\ rom < next - 1
      /\ rom # 0 => argv[rom] \notin Options
      /\ argv' = argv /\ UNCHANGED <<run, next, reading, rom, ram>>
      /\ phase' = "parse_arg" /\ config' = SET_WORD_SIZE(config)
  BY DEF Places, argv, EndOfConfig
<1>1. next - 2 \in (rom + 1)..(next - 1)
  BY <1>a DEF Options
<1>2. ~NotAfterProgram(ConfigFile)' /\ ~NotAfterProgram(RamSize \cup ConfigFile)'
  BY <1>a, <1>1 DEF NotAfterProgram
<1>3. /\ DOMAIN config' = Fields
      /\ config'.word_size_byte = config'.word_size \div 8
      /\ config'.word_mask = WordMask(config'.word_size \div 8)
  BY <1>a, SetWordSize
<1>4. Places' /\ OneAwaited'
  BY <1>a, <1>3 DEF Places, OneAwaited
<1>5. WordSizeAgrees' /\ RamAsConfigured' /\ Prepared' /\ NothingPending'
  BY <1>a, <1>2, <1>3 DEF WordSizeAgrees, RamAsConfigured, Prepared, NothingPending
<1> QED
  BY <1>4, <1>5

(* The machine runs. *)
LEMMA RunStep ==
    ASSUME IInv, Run
    PROVE  IInv'
<1> USE DEF IInv
<1>a. /\ next \in Nat /\ rom \in Nat /\ rom < next /\ DOMAIN config = Fields
      /\ phase = "parse_arg"
      /\ argv' = argv /\ UNCHANGED <<run, next, reading, rom, config>>
      /\ phase' \in {"RET_INVALID_ARGS", "reflet_run", "killed"}
  BY DEF Places, argv, Run
<1>1. Places' /\ OneAwaited' /\ WordSizeAgrees' /\ Prepared'
  BY <1>a DEF Places, OneAwaited, WordSizeAgrees, Prepared
<1>2. DOMAIN ram' = DOMAIN ram
  BY DEF Run
<1>3. RamAsConfigured'
  BY <1>a, <1>2 DEF RamAsConfigured, NotAfterProgram
<1>4. NothingPending'
  <2>1. SUFFICES ASSUME phase' = "reflet_run", NotAfterProgram(ConfigFile)
                 PROVE  IF config.extended_io
                        THEN IO_CMD \in DOMAIN ram => ram'[IO_CMD] = IO_NOP
                        ELSE \A a \in Commands \cap DOMAIN ram : ram'[a] # 0
    BY <1>a, <1>2 DEF NothingPending, NotAfterProgram, Commands
  <2>2. rom # 0
    BY <2>1 DEF Run
  <2>3. CASE config.extended_io
    BY <2>1, <2>2, <2>3 DEF Run
  <2>4. CASE ~config.extended_io
    BY <1>a, <2>1, <2>2, <2>4 DEF Run, Prepared
  <2> QED
    BY <2>3, <2>4
<1> QED
  BY <1>1, <1>3, <1>4

LEMMA NextInv ==
    ASSUME IInv, [Next]_vars
    PROVE  IInv'
<1>1. CASE ParseArg
  BY <1>1, ValueStep, OptionStep, ProgramStep, UnusedStep DEF ParseArg
<1>2. CASE UNCHANGED vars
  BY <1>2 DEF vars, IInv, Places, OneAwaited, WordSizeAgrees, RamAsConfigured,
          Prepared, NothingPending, NotAfterProgram, argv, Commands
<1> QED
  BY <1>1, <1>2, ConfigLineStep, EndStep, RunStep DEF Next, Ended

LEMMA Invariant == Spec => []IInv
<1>1. Init => IInv
  BY InitInv
<1>2. IInv /\ [Next]_vars => IInv'
  BY NextInv
<1> QED
  BY <1>1, <1>2, PTL DEF Spec

-----------------------------------------------------------------------------
(* The theorems. *)

(* Whatever the files are, the RAM that is allocated has the configured    *)
(* size as long as no size and no configuration comes after the program.   *)
THEOREM RamHasConfiguredSize == Spec => []RamAsConfigured
<1>1. IInv => RamAsConfigured
  BY DEF IInv
<1> QED
  BY <1>1, Invariant, PTL

(* No command is pending when the first instruction runs. *)
THEOREM StartsQuietly == Spec => []NothingPending
<1>1. IInv => NothingPending
  BY DEF IInv
<1> QED
  BY <1>1, Invariant, PTL

(* The mask and the size in bytes of a word are never those of another     *)
(* word size, when an argument is read and when the machine runs.          *)
THEOREM MaskFollowsWordSize == Spec => []WordSizeAgrees
<1>1. IInv => WordSizeAgrees
  BY DEF IInv
<1> QED
  BY <1>1, Invariant, PTL

(* An option has its value read right after it, and no other argument.     *)
THEOREM OptionsReadOneValue == Spec => []OneAwaited
<1>1. IInv => OneAwaited
  BY DEF IInv
<1> QED
  BY <1>1, Invariant, PTL

-----------------------------------------------------------------------------
(* Least and greatest elements. *)

LEMMA MinIs ==
    ASSUME NEW T, T \subseteq Nat, T # {}
    PROVE  Min(T) \in T /\ \A m \in T : Min(T) <= m
BY LeastElement DEF Min

LEMMA MinUnique ==
    ASSUME NEW T, T \subseteq Nat, NEW n \in T, \A m \in T : n <= m
    PROVE  Min(T) = n
<1>1. Min(T) \in Nat /\ n \in Nat /\ Min(T) <= n /\ n <= Min(T)
  BY MinIs
<1> QED
  BY <1>1

LEMMA MaxIs ==
    ASSUME NEW n \in Nat, NEW T, T \subseteq 1..n, T # {}
    PROVE  Max(T) \in T /\ \A m \in T : m <= Max(T)
<1> DEFINE below == {n - k : k \in T}
<1>1. PICK d \in below : \A m \in below : d <= m
  <2>1. below \subseteq Nat /\ below # {}
    <3>1. \A k \in T : k \in 1..n /\ n - k \in Nat
      OBVIOUS
    <3> QED
      BY <3>1
  <2> QED
    BY <2>1, LeastElement
<1>2. PICK k \in T : d = n - k
  BY <1>1
<1>3. ASSUME NEW m \in T
      PROVE  m <= k
  <2>1. n - k <= n - m
    BY <1>1, <1>2
  <2> QED
    BY <2>1
<1>4. \E x \in T : \A y \in T : x >= y
  BY <1>3
<1> QED
  BY <1>4 DEF Max

LEMMA MaxUnique ==
    ASSUME NEW n \in Nat, NEW T, T \subseteq 1..n, NEW k \in T, \A m \in T : m <= k
    PROVE  Max(T) = k
<1>1. Max(T) \in T /\ k <= Max(T)
  BY MaxIs
<1>2. Max(T) \in 1..n /\ k \in 1..n /\ Max(T) <= k
  BY <1>1
<1> QED
  BY <1>1, <1>2

-----------------------------------------------------------------------------
(* Types. *)

(* An int of the host. *)
IsInt(v) == v \in -(2^(IntBits - 1))..(2^(IntBits - 1) - 1)

LEMMA ToIntType ==
    /\ \A v \in Nat : IsInt(ToInt(v))
    /\ ToInt(0) = 0 /\ IsInt(0)
<1>1. /\ IntBits \in Nat /\ IntBits - 1 \in Nat /\ (IntBits - 1) + 1 = IntBits
      /\ 2^(IntBits - 1) \in Nat \ {0}
  <2>1. IntBits \in Nat \ {0}
    BY BootAssumption
  <2>2. IntBits - 1 \in Nat /\ (IntBits - 1) + 1 = IntBits
    BY <2>1
  <2> QED
    BY <2>1, <2>2, PowPositive
<1>2. 2^IntBits = 2 * 2^(IntBits - 1)
  BY <1>1, PowStep
<1> DEFINE half == 2^(IntBits - 1)
<1>3. half \in Nat \ {0} /\ 2^IntBits = 2 * half /\ 2 * half \in Nat \ {0}
  BY <1>1, <1>2
<1>4. /\ \A v : ToInt(v) = IF (v % (2 * half)) < half THEN v % (2 * half)
                          ELSE (v % (2 * half)) - 2 * half
      /\ \A v : IsInt(v) <=> v \in (-half)..(half - 1)
  BY <1>3 DEF ToInt, IsInt
<1> HIDE DEF half
<1>5. ASSUME NEW v \in Nat
      PROVE  (v % (2 * half)) \in 0..(2 * half - 1)
  BY <1>3, DivMod
<1>6. (0 % (2 * half)) = 0
  BY <1>3
<1>7. ASSUME NEW v \in Nat
      PROVE  ToInt(v) \in (-half)..(half - 1)
  <2>1. PICK low \in 0..(2 * half - 1) : low = (v % (2 * half))
    BY <1>5
  <2>2. ToInt(v) = IF low < half THEN low ELSE low - 2 * half
    BY <1>4, <2>1
  <2> QED
    BY <1>3, <2>1, <2>2
<1>8. ToInt(0) = 0 /\ 0 \in (-half)..(half - 1)
  <2>1. ToInt(0) = IF 0 < half THEN 0 ELSE 0 - 2 * half
    BY <1>4, <1>6
  <2> QED
    BY <1>3, <2>1
<1> QED
  BY <1>4, <1>7, <1>8

(* The configuration, whose fields keep their names. *)
ConfigTyped(c) ==
    /\ DOMAIN c = Fields
    /\ DOMAIN c.enable = 0..3 /\ DOMAIN c.freq = 0..3
    /\ \A key \in Settings : c[key] \in Nat
    /\ c.word_size % 8 = 0
    /\ c.extended_io \in BOOLEAN
    /\ \A i \in 0..3 : IsInt(c.freq[i]) /\ (c.freq[i] # 0 => c.enable[i])

TypeInv ==
    /\ TypeOK
    /\ run \in Invocations
    /\ ConfigTyped(config)

LEMMA Strings ==
    /\ Settings = {"ram_size", "tx_cmd", "tx_data", "rx_cmd", "rx_data", "word_size"}
    /\ DOMAIN IntFreq = {"int_0_freq", "int_1_freq", "int_2_freq", "int_3_freq"}
    /\ Settings \cap DOMAIN IntFreq = {}
    /\ "extended_io" \notin Settings \cup DOMAIN IntFreq
    /\ \A key \in DOMAIN IntFreq : IntFreq[key] \in 0..3
BY DEF Settings, Addressing, IntFreq

LEMMA AllFields ==
    Fields = Settings \cup {"word_size_byte", "word_mask", "enable", "freq", "extended_io"}
BY DEF Fields, DefaultConfig, Settings, Addressing

LEMMA DefaultTyped == ConfigTyped(DefaultConfig)
<1>1. 8 % 8 = 0
  OBVIOUS
<1>2. /\ DefaultConfig.word_size = 8 /\ DefaultConfig.extended_io = FALSE
      /\ DefaultConfig.enable = [i \in 0..3 |-> FALSE]
      /\ DefaultConfig.freq = [i \in 0..3 |-> 0]
  BY DEF DefaultConfig
<1>3. ASSUME NEW key \in Settings
      PROVE  DefaultConfig[key] \in Nat
  <2>1. /\ DefaultConfig.ram_size = RAM_SIZE /\ DefaultConfig.tx_cmd = 0
        /\ DefaultConfig.tx_data = 1 /\ DefaultConfig.rx_cmd = 2
        /\ DefaultConfig.rx_data = 3 /\ RAM_SIZE \in Nat
    BY BootAssumption DEF DefaultConfig
  <2> QED
    BY <1>2, <2>1, Strings
<1>4. ASSUME NEW i \in 0..3
      PROVE  DefaultConfig.freq[i] = 0 /\ ~DefaultConfig.enable[i]
  BY <1>2, Zenon
<1>5. DOMAIN DefaultConfig.enable = 0..3 /\ DOMAIN DefaultConfig.freq = 0..3
  BY <1>2, Zenon
<1>6. \A i \in 0..3 : /\ IsInt(DefaultConfig.freq[i])
                      /\ DefaultConfig.freq[i] # 0 => DefaultConfig.enable[i]
  BY <1>4, ToIntType, Zenon
<1>7. DefaultConfig.word_size % 8 = 0 /\ DefaultConfig.extended_io \in BOOLEAN
  BY <1>1, <1>2
<1> QED
  BY <1>3, <1>5, <1>6, <1>7, Zenon DEF ConfigTyped, Fields

LEMMA SetWordSizeTyped ==
    ASSUME NEW c, ConfigTyped(c)
    PROVE  ConfigTyped(SET_WORD_SIZE(c))
BY AllFields, Strings DEF ConfigTyped, SET_WORD_SIZE

(* A line that is not refused keeps the types. *)
LEMMA ApplyTyped ==
    ASSUME NEW c, ConfigTyped(c), NEW key, NEW value \in Nat,
           key = "word_size" => value % 8 = 0
    PROVE  ConfigTyped(Apply(c, key, value))
<1>1. CASE key \in Settings
  <2>1. Apply(c, key, value) = [c EXCEPT ![key] = value]
    BY <1>1, Strings DEF Apply, Settings
  <2> QED
    BY <1>1, <2>1, AllFields, Strings DEF ConfigTyped
<1>2. CASE key \in DOMAIN IntFreq /\ value # 0
  <2>1. Apply(c, key, value) = [c EXCEPT !.enable[IntFreq[key]] = TRUE,
                                         !.freq[IntFreq[key]] = ToInt(value)]
    BY <1>2, Strings DEF Apply, Settings
  <2>2. PICK period : IsInt(period) /\ period = ToInt(value)
    BY ToIntType
  <2> QED
    BY <1>2, <2>1, <2>2, AllFields, Strings DEF ConfigTyped
<1>3. CASE key = "extended_io"
  <2>1. Apply(c, key, value) = [c EXCEPT !.extended_io = (value # 0)]
    BY <1>3, Strings DEF Apply, Settings
  <2> QED
    BY <1>3, <2>1, AllFields, Strings DEF ConfigTyped
<1>4. CASE ~(key \in Settings \/ (key \in DOMAIN IntFreq /\ value # 0) \/ key = "extended_io")
  BY <1>4 DEF Apply, Settings
<1> QED
  BY <1>1, <1>2, <1>3, <1>4
(* What is read of a file, and the part of it that is loaded. *)
LEMMA FileTyped ==
    ASSUME run \in Invocations, NEW f, Readable(f)
    PROVE  /\ BytesOf(f) \in Seq(Byte)
           /\ TextOf(f) \in Seq(Seq(STRING))
           /\ \A n \in DOMAIN TextOf(f) : WordsApart(TextOf(f)[n])
<1>1. CASE f = log
  <2>1. BytesOf(f) = <<>> /\ TextOf(f) = <<>>
    BY <1>1 DEF BytesOf, TextOf
  <2> QED
    BY <2>1
<1>2. CASE f # log
  <2>1. f \in DOMAIN bytes /\ BytesOf(f) = bytes[f] /\ TextOf(f) = text[f]
    BY <1>2 DEF BytesOf, TextOf, Readable
  <2> QED
    BY <2>1, BootAssumption DEF bytes, text
<1> QED
  BY <1>1, <1>2

LEMMA BodyTyped ==
    ASSUME run \in Invocations, NEW f, Readable(f)
    PROVE  Body(f) \in Seq(Byte)
<1> DEFINE file == BytesOf(f)
           newlines == {k \in DOMAIN file : file[k] = NEWLINE}
<1>1. file \in Seq(Byte)
  BY FileTyped
<1>2. CASE ~ignore_first_line
  BY <1>1, <1>2 DEF Body
<1>3. CASE ignore_first_line /\ newlines = {}
  <2>1. Body(f) = <<>>
    BY <1>3 DEF Body
  <2> QED
    BY <2>1
<1>4. CASE ignore_first_line /\ newlines # {}
  <2>1. Body(f) = SubSeq(file, Min(newlines) + 1, Len(file))
    BY <1>4 DEF Body
  <2>2. Min(newlines) \in newlines
    <3>1. newlines \subseteq Nat
      BY <1>1
    <3> QED
      BY <1>4, <3>1, MinIs
  <2>3. Min(newlines) \in 1..Len(file)
    BY <1>1, <2>2
  <2> HIDE DEF newlines, file
  <2> QED
    BY <1>1, <2>1, <2>3
<1> QED
  BY <1>2, <1>3, <1>4
LEMMA Phases ==
    /\ Final \cap {"parse_arg", "applyConfig"} = {}
    /\ {"RET_CONFIG", "RET_NO_VM", "RET_UNOPEN_FILE", "RET_INVALID_ARGS", "exit_0",
        "killed", "reflet_run"} = Final
BY DEF Final, Errors

LEMMA LenIs ==
    ASSUME NEW S, NEW s \in Seq(S)
    PROVE  Len(s) \in Nat /\ DOMAIN s = 1..Len(s)
OBVIOUS

LEMMA ArgvTyped ==
    ASSUME run \in Invocations
    PROVE  argv \in Seq(STRING) /\ Len(argv) \in Nat /\ DOMAIN argv = 1..Len(argv)
<1>1. argv \in Seq(STRING)
  BY BootAssumption DEF argv
<1> QED
  BY <1>1, LenIs, Zenon

LEMMA InitTyped == Init => TypeInv
<1> SUFFICES ASSUME Init PROVE TypeInv
  OBVIOUS
<1>1. /\ run \in Invocations /\ next = 1 /\ reading = {} /\ ignore_first_line = FALSE
      /\ rom = 0 /\ config = DefaultConfig /\ log = "" /\ ram = <<>> /\ phase = "parse_arg"
  BY DEF Init
<1>2. Len(argv) \in Nat
  BY <1>1, ArgvTyped
<1>3. ConfigTyped(config)
  BY <1>1, DefaultTyped
<1>4. next \in 1..(Len(argv) + 1) /\ rom \in 0..(next - 1)
  <2>1. next = 1 /\ rom = 0
    BY <1>1
  <2> QED
    BY <1>2, <2>1
<1>5. \A a \in DOMAIN ram : ram[a] \in Byte
  <2>1. ram = <<>>
    BY <1>1
  <2>2. DOMAIN ram = {}
    BY <2>1
  <2> QED
    BY <2>2
<1> QED
  BY <1>1, <1>3, <1>4, <1>5 DEF TypeInv, TypeOK, ConfigTyped, IsInt

LEMMA LoadTyped ==
    ASSUME TypeInv, LoadProgram
    PROVE  /\ \A a \in DOMAIN ram' : ram'[a] \in Byte
           /\ phase' \in {phase} \cup Final
           /\ rom' \in {rom, next}
<1>1. CASE Readable(Arg) /\ ram' = Image(Body(Arg))
  <2> DEFINE body == Body(Arg)
  <2>1. body \in Seq(Byte)
    BY <1>1, BodyTyped DEF TypeInv
  <2>2. ASSUME NEW a \in Addresses
        PROVE  Image(body)[a] \in Byte
    <3>1. a \in Int /\ a >= 0
      BY DEF Addresses
    <3>2. a < Len(body) => body[a + 1] \in Byte
      BY <2>1, <3>1
    <3>3. 0 \in Byte /\ 1 \in Byte
      BY DEF Byte
    <3>4. Image(body)[a] = IF a < Len(body) /\ body[a + 1] # 0 THEN body[a + 1]
                           ELSE IF a \in Commands THEN 1 ELSE 0
      BY DEF Image
    <3> QED
      BY <3>2, <3>3, <3>4
  <2>3. DOMAIN ram' = Addresses
    BY <1>1 DEF Image
  <2> QED
    BY <1>1, <2>2, <2>3, Phases DEF LoadProgram
<1>2. CASE UNCHANGED <<ram, rom>> /\ phase' = "RET_NO_VM"
  BY <1>2, Phases DEF TypeInv, TypeOK
<1> QED
  BY <1>1, <1>2 DEF LoadProgram

LEMMA ArgumentTyped ==
    ASSUME TypeInv, ParseArg
    PROVE  TypeInv'
<1>a. /\ phase = "parse_arg" /\ next <= Len(argv) /\ next' = next + 1 /\ run' = run
      /\ argv' = argv
  BY DEF ParseArg, argv
<1>p. next \in Nat /\ 1 <= next /\ rom \in 0..(next - 1) /\ Len(argv) \in Nat
  <2>1. Len(argv) \in Nat
    BY ArgvTyped DEF TypeInv
  <2>2. next \in 1..(Len(argv) + 1) /\ rom \in 0..(next - 1)
    BY DEF TypeInv, TypeOK
  <2> QED
    BY <2>1, <2>2
<1>b. /\ run \in Invocations /\ ConfigTyped(config) /\ reading \subseteq Flags
      /\ ignore_first_line \in BOOLEAN /\ log \in Writable \cup {""}
      /\ \A a \in DOMAIN ram : ram[a] \in Byte
      /\ "" \notin Writable
  BY BootAssumption DEF TypeInv, TypeOK
<1>c. next' \in 1..(Len(argv') + 1)
  BY <1>a, <1>p
<1>d. \A r \in {rom, next} : r \in 0..(next' - 1)
  BY <1>a, <1>p
<1>1. SUFFICES /\ reading' \subseteq Flags /\ ignore_first_line' \in BOOLEAN
               /\ rom' \in {rom, next} /\ ConfigTyped(config')
               /\ log' \in Writable \cup {""}
               /\ \A a \in DOMAIN ram' : ram'[a] \in Byte
               /\ phase' \in Final \cup {"parse_arg", "applyConfig"}
  BY <1>a, <1>b, <1>c, <1>d DEF TypeInv, TypeOK, ConfigTyped, IsInt
<1>2. CASE ConfigFileValue /\ UNCHANGED ignore_first_line
  BY <1>2, <1>a, <1>b, Phases DEF ConfigFileValue
<1>3. CASE WordSizeValue /\ UNCHANGED ignore_first_line
  <2>1. /\ reading' \subseteq Flags /\ UNCHANGED <<rom, log, ram, ignore_first_line>>
        /\ phase' \in {phase, "RET_CONFIG"}
    BY <1>3, <1>b DEF WordSizeValue, Exit
  <2>2. ConfigTyped(config')
    <3>1. CASE UNCHANGED config
      BY <1>b, <3>1
    <3>2. CASE /\ Arg \in DOMAIN Numerals /\ Numerals[Arg] % 8 = 0
               /\ config' = SET_WORD_SIZE([config EXCEPT !.word_size = Numerals[Arg]])
      <4>1. Numerals[Arg] \in Nat
        BY <3>2, BootAssumption
      <4>2. ConfigTyped([config EXCEPT !.word_size = Numerals[Arg]])
        BY <1>b, <3>2, <4>1, AllFields, Strings DEF ConfigTyped
      <4> QED
        BY <3>2, <4>2, SetWordSizeTyped
    <3> QED
      BY <1>3, <3>1, <3>2 DEF WordSizeValue, Exit
  <2> QED
    BY <1>a, <1>b, <2>1, <2>2, Phases
<1>4. CASE RamSizeValue /\ UNCHANGED ignore_first_line
  <2>1. /\ reading' \subseteq Flags /\ UNCHANGED <<rom, log, ram, ignore_first_line>>
        /\ phase' \in {phase, "RET_CONFIG"}
    BY <1>4, <1>b DEF RamSizeValue, Exit
  <2>2. ConfigTyped(config')
    <3>1. CASE UNCHANGED config
      BY <1>b, <3>1
    <3>2. CASE /\ Arg \in DOMAIN Numerals
               /\ config' = [config EXCEPT !.ram_size = Numerals[Arg]]
      <4>1. Numerals[Arg] \in Nat
        BY <3>2, BootAssumption
      <4> QED
        BY <1>b, <3>2, <4>1, AllFields, Strings DEF ConfigTyped
    <3> QED
      BY <1>4, <3>1, <3>2 DEF RamSizeValue, Exit
  <2> QED
    BY <1>a, <1>b, <2>1, <2>2, Phases
<1>5. CASE LogFileValue /\ UNCHANGED ignore_first_line
  BY <1>5, <1>a, <1>b, Phases DEF LogFileValue, OpenLog, Exit
<1>6. CASE ReadOption
  <2>1. UNCHANGED <<rom, log, ram>>
    BY <1>6 DEF ReadOption
  <2>2. reading' \subseteq Flags /\ ignore_first_line' \in BOOLEAN
    BY <1>6, <1>b DEF ReadOption, Raise, Flags
  <2>3. phase' \in {phase, "exit_0"}
    BY <1>6 DEF ReadOption, Raise
  <2>4. ConfigTyped(config')
    <3>1. CASE UNCHANGED config
      BY <1>b, <3>1
    <3>2. CASE config' = [config EXCEPT !.extended_io = TRUE]
      BY <1>b, <3>2, AllFields, Strings DEF ConfigTyped
    <3> QED
      BY <1>6, <3>1, <3>2 DEF ReadOption, Raise
  <2> QED
    BY <1>a, <1>b, <2>1, <2>2, <2>3, <2>4, Phases
<1>7. CASE ReadProgram
  <2>1. UNCHANGED <<config, log, reading, ignore_first_line>> /\ LoadProgram
    BY <1>7 DEF ReadProgram, LoadProgram
  <2> QED
    BY <1>a, <1>b, <2>1, LoadTyped
<1>8. CASE Unused
  BY <1>8, <1>a, <1>b DEF Unused
<1> QED
  BY <1>2, <1>3, <1>4, <1>5, <1>6, <1>7, <1>8 DEF ParseArg, ReadValue
LEMMA LineTyped ==
    ASSUME TypeInv, ApplyLine
    PROVE  TypeInv'
<1>a. /\ phase = "applyConfig" /\ UNCHANGED <<run, next, reading, ignore_first_line, rom, ram>>
      /\ argv' = argv /\ phase' \in {phase, "RET_CONFIG"}
  BY DEF ApplyLine, OpenLog, Exit, argv
<1>1. log' \in Writable \cup {""}
  BY DEF ApplyLine, OpenLog, Exit, TypeInv, TypeOK
<1>2. ConfigTyped(config')
  <2> DEFINE line == Head(lines)
  <2>1. CASE UNCHANGED config
    BY <2>1 DEF TypeInv
  <2>2. CASE ~Refused(line) /\ config' = Apply(config, Key(line), Numerals[Value(line)])
    <3>1. /\ Value(line) \in DOMAIN Numerals
          /\ Key(line) = "word_size" => Numerals[Value(line)] % 8 = 0
      BY <2>2 DEF Refused
    <3>2. Numerals[Value(line)] \in Nat
      BY <3>1, BootAssumption
    <3> QED
      BY <2>2, <3>1, <3>2, ApplyTyped DEF TypeInv
  <2> QED
    BY <2>1, <2>2 DEF ApplyLine, OpenLog, Exit
<1> QED
  BY <1>a, <1>1, <1>2, Phases DEF TypeInv, TypeOK, ConfigTyped, IsInt

LEMMA EndTyped ==
    ASSUME TypeInv, EndOfConfig
    PROVE  TypeInv'
<1>1. /\ UNCHANGED <<run, next, reading, ignore_first_line, rom, log, ram>> /\ argv' = argv
      /\ phase' = "parse_arg" /\ config' = SET_WORD_SIZE(config)
  BY DEF EndOfConfig, argv
<1>2. ConfigTyped(config')
  BY <1>1, SetWordSizeTyped DEF TypeInv
<1> QED
  BY <1>1, <1>2 DEF TypeInv, TypeOK, ConfigTyped, IsInt

LEMMA RunTyped ==
    ASSUME TypeInv, Run
    PROVE  TypeInv'
<1>1. /\ UNCHANGED <<run, next, reading, ignore_first_line, rom, log, config>> /\ argv' = argv
      /\ phase' \in {"RET_INVALID_ARGS", "reflet_run", "killed"}
      /\ ram' \in {ram, [ram EXCEPT ![IO_CMD] = IO_NOP]}
  BY DEF Run, argv
<1>2. \A a \in DOMAIN ram' : ram'[a] \in Byte
  <2>1. IO_NOP \in Byte
    BY DEF IO_NOP, Byte
  <2> QED
    BY <1>1, <2>1 DEF TypeInv, TypeOK
<1> QED
  BY <1>1, <1>2, Phases DEF TypeInv, TypeOK, ConfigTyped, IsInt

LEMMA NextTyped ==
    ASSUME TypeInv, [Next]_vars
    PROVE  TypeInv'
<1>1. CASE UNCHANGED vars
  BY <1>1 DEF vars, TypeInv, TypeOK, ConfigTyped, argv
<1> QED
  BY <1>1, ArgumentTyped, LineTyped, EndTyped, RunTyped DEF Next, Ended

LEMMA Typing == Spec => []TypeInv
<1>1. Init => TypeInv
  BY InitTyped
<1>2. TypeInv /\ [Next]_vars => TypeInv'
  BY NextTyped
<1> QED
  BY <1>1, <1>2, PTL DEF Spec

(* Every setting is a number whatever the lines of the files are, every    *)
(* period an int and that of an interrupt which is not enabled 0; the word *)
(* size is a number of bytes, and what is loaded fits the cells.           *)
THEOREM StartTypes == Spec => []TypeOK
<1>1. TypeInv => TypeOK
  BY DEF TypeInv
<1> QED
  BY <1>1, Typing, PTL
-----------------------------------------------------------------------------
(* The lines of a configuration file.  preprocessLine is a fold over the   *)
(* tokens; first, that it goes from one token to the next.                 *)

TokenStep(now, token) == IF now \in Results THEN now ELSE LineStep[now][Kind(token)]

(* g is the function that the fold over the tokens at the indices S defines. *)
IsReading(g, line, S) ==
    g = [s \in SUBSET S |-> IF s = {} THEN "before_first"
                            ELSE TokenStep(g[s \ {Max(s)}], line[Max(s)])]

LEMMA ReadingIs ==
    ASSUME NEW line
    PROVE  \E last :
             /\ last = (CHOOSE g : IsReading(g, line, DOMAIN line))[DOMAIN line]
             /\ preprocessLine(line) = IF last \in Results THEN last ELSE "ERROR"
BY Zenon DEF preprocessLine, FoldLeft, MapThenFoldSet, IsReading, TokenStep

IndicesOnly(U) == \E n \in Nat : U \subseteq 1..n

LEMMA MaxIn ==
    ASSUME NEW S, IndicesOnly(S), S # {}
    PROVE  Max(S) \in S
BY MaxIs DEF IndicesOnly

LEMMA FewerIndices ==
    ASSUME NEW S, IndicesOnly(S)
    PROVE  IsFiniteSet(S) /\ \A R \in SUBSET S : IndicesOnly(R)
<1>1. PICK n \in Nat : S \subseteq 1..n
  BY DEF IndicesOnly
<1>2. IsFiniteSet(1..n)
  BY FS_Interval
<1> QED
  BY <1>1, <1>2, FS_Subset DEF IndicesOnly

LEMMA ReadingUnique ==
    ASSUME NEW line, NEW S, NEW T, NEW g, NEW h, NEW U, IndicesOnly(U),
           IsReading(g, line, S), IsReading(h, line, T), U \subseteq S, U \subseteq T
    PROVE  g[U] = h[U]
<1> DEFINE Good == {u \in SUBSET U : g[u] = h[u]}
<1>1. ASSUME NEW u \in SUBSET U,
             \A R \in SUBSET u : R # u => R \in Good
      PROVE  u \in Good
  <2>1. /\ g[u] = IF u = {} THEN "before_first"
                  ELSE TokenStep(g[u \ {Max(u)}], line[Max(u)])
        /\ h[u] = IF u = {} THEN "before_first"
                  ELSE TokenStep(h[u \ {Max(u)}], line[Max(u)])
    BY DEF IsReading
  <2>2. CASE u # {}
    <3>1. u \ {Max(u)} \in SUBSET u /\ u \ {Max(u)} # u
      BY <2>2, MaxIn, FewerIndices
    <3>2. g[u \ {Max(u)}] = h[u \ {Max(u)}]
      BY <1>1, <3>1
    <3> QED
      BY <2>1, <2>2, <3>2
  <2> QED
    BY <2>1, <2>2
<1> HIDE DEF Good
<1>2. IsFiniteSet(U)
  BY FewerIndices
<1>3. U \in Good
  BY <1>1, <1>2, SubsetInduction
<1> QED
  BY <1>3 DEF Good

LEMMA ReadingExists ==
    ASSUME NEW line, NEW S, IndicesOnly(S)
    PROVE  \E g : IsReading(g, line, S)
<1> DEFINE Good == {T \in SUBSET S : \E g : IsReading(g, line, T)}
<1>1. ASSUME NEW T \in SUBSET S,
             \A R \in SUBSET T : R # T => R \in Good
      PROVE  T \in Good
  <2> DEFINE It(R) == CHOOSE g : IsReading(g, line, R)
             c == Max(T)
             G == [s \in SUBSET T |->
                      IF s = T
                      THEN (IF T = {} THEN "before_first"
                            ELSE TokenStep(It(T \ {c})[T \ {c}], line[c]))
                      ELSE It(s)[s]]
  <2>1. ASSUME NEW R \in SUBSET T, R # T
        PROVE  IsReading(It(R), line, R)
    <3>1. \E g : IsReading(g, line, R)
      BY <1>1, <2>1
    <3> QED
      BY <3>1, Zenon
  <2> HIDE DEF It
  <2>a. ASSUME NEW s \in SUBSET T, s # {}
        PROVE  Max(s) \in s
    BY <2>a, MaxIn, FewerIndices
  <2>2. ASSUME NEW s \in SUBSET T
        PROVE  G[s] = IF s = {} THEN "before_first"
                      ELSE TokenStep(G[s \ {Max(s)}], line[Max(s)])
    <3>1. CASE s = T
      <4>1. T # {} => T \ {c} # T /\ T \ {c} \in SUBSET T
        BY <2>a
      <4> QED
        BY <3>1, <4>1
    <3>2. CASE s # T /\ s = {}
      <4>1. IsReading(It(s), line, s)
        BY <2>1, <3>2
      <4>2. It(s)[s] = "before_first"
        BY <3>2, <4>1 DEF IsReading
      <4> QED
        BY <3>2, <4>2
    <3>3. CASE s # T /\ s # {}
      <4> DEFINE r == s \ {Max(s)}
      <4>1. r \in SUBSET T /\ r # T /\ r # s /\ r \in SUBSET s
        BY <2>a, <3>3
      <4>2. IsReading(It(s), line, s) /\ IsReading(It(r), line, r)
        BY <2>1, <3>3, <4>1
      <4>3. It(s)[s] = TokenStep(It(s)[r], line[Max(s)])
        BY <3>3, <4>2 DEF IsReading
      <4>4. It(s)[r] = It(r)[r]
        <5>1. IndicesOnly(r) /\ r \subseteq s
          BY <4>1, FewerIndices
        <5> HIDE DEF r
        <5> QED
          BY <4>2, <5>1, ReadingUnique
      <4>5. G[s] = It(s)[s] /\ G[r] = It(r)[r]
        BY <3>3, <4>1
      <4> HIDE DEF G
      <4> QED
        BY <3>3, <4>3, <4>4, <4>5
    <3> QED
      BY <3>1, <3>2, <3>3
  <2>3. G = [s \in SUBSET T |-> G[s]]
    OBVIOUS
  <2> HIDE DEF G
  <2>4. IsReading(G, line, T)
    BY <2>2, <2>3 DEF IsReading
  <2> QED
    BY <2>4
<1>2. IsFiniteSet(S)
  BY FewerIndices
<1> HIDE DEF Good
<1>3. S \in Good
  BY <1>1, <1>2, SubsetInduction
<1> QED
  BY <1>3 DEF Good

(* The states of the automaton, token after token. *)
LEMMA ReadingSteps ==
    ASSUME NEW line \in Seq(STRING)
    PROVE  \E st :
             /\ st[0] = "before_first"
             /\ \A k \in 1..Len(line) : st[k] = TokenStep(st[k - 1], line[k])
             /\ preprocessLine(line) = IF st[Len(line)] \in Results THEN st[Len(line)]
                                       ELSE "ERROR"
<1> DEFINE n == Len(line)
           g == CHOOSE f : IsReading(f, line, 1..n)
           st == [k \in 0..n |-> g[1..k]]
<1>1. n \in Nat /\ DOMAIN line = 1..n
  BY LenIs
<1>2. IsReading(g, line, 1..n)
  <2>1. \E f : IsReading(f, line, 1..n)
    BY <1>1, ReadingExists DEF IndicesOnly
  <2> QED
    BY <2>1, Zenon
<1>3. preprocessLine(line) = IF g[1..n] \in Results THEN g[1..n] ELSE "ERROR"
  <2>1. (CHOOSE f : IsReading(f, line, DOMAIN line))[DOMAIN line] = g[1..n]
    BY <1>1, Zenon
  <2> QED
    BY <2>1, ReadingIs, Zenon
<1> HIDE DEF g, n
<1>4. ASSUME NEW k \in 0..n
      PROVE  g[1..k] = IF 1..k = {} THEN "before_first"
                       ELSE TokenStep(g[(1..k) \ {Max(1..k)}], line[Max(1..k)])
  <2>1. 1..k \in SUBSET (1..n)
    BY <1>1
  <2> QED
    BY <1>2, <2>1 DEF IsReading
<1>5. st[0] = "before_first"
  <2>1. 1..0 = {} /\ 0 \in 0..n
    BY <1>1
  <2>2. g[1..0] = "before_first"
    BY <1>4, <2>1
  <2> QED
    BY <2>1, <2>2
<1>6. ASSUME NEW k \in 1..n
      PROVE  st[k] = TokenStep(st[k - 1], line[k])
  <2>1. Max(1..k) = k
    <3>1. k \in Nat /\ k \in 1..k /\ \A m \in 1..k : m <= k
      BY <1>1
    <3> QED
      BY <3>1, MaxUnique
  <2>2. k \in 1..k /\ (1..k) \ {k} = 1..(k - 1)
    BY <1>1
  <2>3. k \in 0..n /\ k - 1 \in 0..n
    BY <1>1
  <2>4. g[1..k] = TokenStep(g[1..(k - 1)], line[k])
    BY <1>4, <2>1, <2>2, <2>3
  <2> QED
    BY <2>3, <2>4
<1>7. st[n] = g[1..n]
  BY <1>1
<1> HIDE DEF st
<1>8. preprocessLine(line) = IF st[n] \in Results THEN st[n] ELSE "ERROR"
  BY <1>3, <1>7
<1> QED
  BY <1>5, <1>6, <1>8 DEF n
(* The state of the automaton tells how many words it has read, and        *)
(* whether the last token was one.                                         *)
WordsUpTo(line, k) == {j \in WordsAt(line) : j <= k}

Reached(now, words, k) ==
    \/ words = {} /\ now = "before_first"
    \/ \E a : words = {a} /\ now = IF a = k THEN "first" ELSE "before_second"
    \/ \E a, b : a < b /\ words = {a, b} /\ now = IF b = k THEN "second" ELSE "after"
    \/ (\E a, b, c \in words : a < b /\ b < c) /\ now = "ERROR"

LEMMA TableOf ==
    ASSUME NEW token
    PROVE  /\ Kind(token) \in {"blank", "end", "word"}
           /\ Kind(token) = "blank" =>
                /\ TokenStep("before_first", token) = "before_first"
                /\ TokenStep("first", token) = "before_second"
                /\ TokenStep("before_second", token) = "before_second"
                /\ TokenStep("second", token) = "after"
                /\ TokenStep("after", token) = "after"
           /\ Kind(token) = "word" =>
                /\ TokenStep("before_first", token) = "first"
                /\ TokenStep("before_second", token) = "second"
                /\ TokenStep("after", token) = "ERROR"
           /\ Kind(token) = "end" =>
                /\ TokenStep("before_first", token) = "NO_LINE"
                /\ TokenStep("first", token) = "ERROR"
                /\ TokenStep("before_second", token) = "ERROR"
                /\ TokenStep("second", token) = "OK"
                /\ TokenStep("after", token) = "OK"
           /\ \A now \in Results : TokenStep(now, token) = now
<1>1. Kind(token) \in {"blank", "end", "word"}
  BY DEF Kind
<1> QED
  BY <1>1 DEF TokenStep, LineStep, Results

LEMMA OneMoreToken ==
    ASSUME NEW line \in Seq(STRING), WordsApart(line), NEW k \in Nat, k + 1 <= Len(line),
           NEW now, Reached(now, WordsUpTo(line, k), k), Kind(line[k + 1]) # "end"
    PROVE  Reached(TokenStep(now, line[k + 1]), WordsUpTo(line, k + 1), k + 1)
<1> DEFINE token == line[k + 1]
           words == WordsUpTo(line, k)
           more == WordsUpTo(line, k + 1)
<1> SUFFICES Reached(TokenStep(now, token), more, k + 1)
  OBVIOUS
<1>1. DOMAIN line = 1..Len(line) /\ Len(line) \in Nat
  BY LenIs
<1>2. \A j \in words : j \in Nat /\ j <= k /\ j \in WordsAt(line)
  BY <1>1 DEF WordsUpTo, WordsAt
<1>3. CASE Kind(token) = "blank"
  <2>1. more = words
    BY <1>1, <1>3 DEF WordsUpTo, WordsAt
  <2>2. k + 1 \notin words
    BY <1>2
  <2> HIDE DEF token, words, more
  <2>3. CASE words = {} /\ now = "before_first"
    BY <1>3, <2>1, <2>3, TableOf DEF Reached
  <2>4. CASE \E a : words = {a} /\ now = IF a = k THEN "first" ELSE "before_second"
    <3>1. PICK a : words = {a} /\ now \in {"first", "before_second"} /\ a # k + 1
      BY <2>2, <2>4
    <3>2. TokenStep(now, token) = "before_second"
      BY <1>3, <3>1, TableOf
    <3> QED
      BY <2>1, <3>1, <3>2 DEF Reached
  <2>5. CASE \E a, b : a < b /\ words = {a, b} /\ now = IF b = k THEN "second" ELSE "after"
    <3>1. PICK a, b : a < b /\ words = {a, b} /\ now \in {"second", "after"} /\ b # k + 1
      BY <2>2, <2>5
    <3>2. TokenStep(now, token) = "after"
      BY <1>3, <3>1, TableOf
    <3> QED
      BY <2>1, <3>1, <3>2 DEF Reached
  <2>6. CASE (\E a, b, c \in words : a < b /\ b < c) /\ now = "ERROR"
    BY <2>1, <2>6, TableOf DEF Reached, Results
  <2> QED
    BY <2>3, <2>4, <2>5, <2>6 DEF Reached, token, words, more
<1>4. CASE Kind(token) = "word"
  <2>1. k + 1 \in WordsAt(line)
    BY <1>1, <1>4 DEF WordsAt
  <2>2. more = words \cup {k + 1}
    BY <1>1, <2>1 DEF WordsUpTo, WordsAt
  <2>3. k \notin words
    BY <1>2, <2>1 DEF WordsApart
  <2>4. \A j \in words : j < k + 1
    BY <1>2
  <2> HIDE DEF token, words, more
  <2>5. CASE words = {} /\ now = "before_first"
    <3>1. more = {k + 1} /\ TokenStep(now, token) = "first"
      BY <1>4, <2>2, <2>5, TableOf
    <3> QED
      BY <3>1 DEF Reached
  <2>6. CASE \E a : words = {a} /\ now = IF a = k THEN "first" ELSE "before_second"
    <3>1. PICK a : words = {a} /\ now = "before_second"
      BY <2>3, <2>6
    <3>2. a < k + 1 /\ more = {a, k + 1} /\ TokenStep(now, token) = "second"
      BY <1>4, <2>2, <2>4, <3>1, TableOf
    <3> QED
      BY <3>2 DEF Reached
  <2>7. CASE \E a, b : a < b /\ words = {a, b} /\ now = IF b = k THEN "second" ELSE "after"
    <3>1. PICK a, b : a < b /\ words = {a, b} /\ now = "after"
      BY <2>3, <2>7
    <3>2. /\ a \in more /\ b \in more /\ k + 1 \in more /\ b < k + 1
          /\ TokenStep(now, token) = "ERROR"
      BY <1>4, <2>2, <2>4, <3>1, TableOf
    <3> QED
      BY <3>1, <3>2 DEF Reached
  <2>8. CASE (\E a, b, c \in words : a < b /\ b < c) /\ now = "ERROR"
    <3>1. \E a, b, c \in more : a < b /\ b < c
      BY <2>2, <2>8
    <3>2. TokenStep(now, token) = "ERROR"
      BY <2>8, TableOf DEF Results
    <3> QED
      BY <3>1, <3>2 DEF Reached
  <2> QED
    BY <2>5, <2>6, <2>7, <2>8 DEF Reached, token, words, more
<1> QED
  BY <1>3, <1>4, TableOf
(* How many words there are, and what an end makes of them. *)
LEMMA EndCounts ==
    ASSUME NEW now, NEW words, NEW k \in Nat, Reached(now, words, k), IsFiniteSet(words),
           words \subseteq Nat, NEW token, Kind(token) = "end"
    PROVE  TokenStep(now, token) = CASE Cardinality(words) = 2 -> "OK"
                                     [] Cardinality(words) = 0 -> "NO_LINE"
                                     [] OTHER -> "ERROR"
<1>1. CASE words = {} /\ now = "before_first"
  <2>1. Cardinality(words) = 0 /\ TokenStep(now, token) = "NO_LINE"
    BY <1>1, FS_EmptySet, TableOf
  <2> QED
    BY <2>1
<1>2. CASE \E a : words = {a} /\ now = IF a = k THEN "first" ELSE "before_second"
  <2>1. PICK a : words = {a} /\ now \in {"first", "before_second"}
    BY <1>2
  <2>2. Cardinality(words) = 1 /\ TokenStep(now, token) = "ERROR"
    BY <2>1, FS_Singleton, TableOf
  <2> QED
    BY <2>2
<1>3. CASE \E a, b : a < b /\ words = {a, b} /\ now = IF b = k THEN "second" ELSE "after"
  <2>1. PICK a, b : a < b /\ words = {a, b} /\ now \in {"second", "after"}
    BY <1>3
  <2>2. a # b
    BY <2>1
  <2>3. IsFiniteSet({a}) /\ Cardinality({a}) = 1 /\ {a, b} = {a} \cup {b} /\ b \notin {a}
    BY <2>2, FS_Singleton
  <2>4. Cardinality(words) = 2
    <3>1. Cardinality({a} \cup {b}) = Cardinality({a}) + 1
      BY <2>3, FS_AddElement, Zenon
    <3> QED
      BY <2>1, <2>3, <3>1
  <2>5. TokenStep(now, token) = "OK"
    BY <2>1, TableOf
  <2> QED
    BY <2>4, <2>5
<1>4. CASE (\E a, b, c \in words : a < b /\ b < c) /\ now = "ERROR"
  <2>1. PICK a, b, c \in words : a < b /\ b < c
    BY <1>4
  <2>2. a # b /\ b # c /\ a # c
    BY <2>1
  <2>3. IsFiniteSet({a}) /\ Cardinality({a}) = 1 /\ {a, b} = {a} \cup {b} /\ b \notin {a}
    BY <2>2, FS_Singleton
  <2>4. IsFiniteSet({a, b}) /\ Cardinality({a, b}) = 2
    <3>1. /\ IsFiniteSet({a} \cup {b})
          /\ Cardinality({a} \cup {b}) = Cardinality({a}) + 1
      BY <2>3, FS_AddElement, Zenon
    <3> QED
      BY <2>3, <3>1
  <2>5. {a, b, c} = {a, b} \cup {c} /\ c \notin {a, b}
    BY <2>2
  <2>6. Cardinality({a, b, c}) = 3
    BY <2>4, <2>5, FS_AddElement
  <2>7. 3 <= Cardinality(words) /\ Cardinality(words) \in Nat
    <3>1. {a, b, c} \subseteq words
      BY <2>1
    <3> QED
      BY <2>6, <3>1, FS_Subset, FS_CardinalityType
  <2>8. TokenStep(now, token) = "ERROR"
    BY <1>4, TableOf DEF Results
  <2> QED
    BY <2>7, <2>8
<1> QED
  BY <1>1, <1>2, <1>3, <1>4 DEF Reached

(* preprocessLine computes the meaning of a line whose words are apart.    *)
LEMMA LineMeaning ==
    ASSUME NEW line \in Seq(STRING), WordsApart(line)
    PROVE  preprocessLine(line) = Meaning(line)
<1> DEFINE n == Len(line)
<1>1. n \in Nat /\ DOMAIN line = 1..n
  BY LenIs
<1>2. PICK st : /\ st[0] = "before_first"
                /\ \A k \in 1..n : st[k] = TokenStep(st[k - 1], line[k])
                /\ preprocessLine(line) = IF st[n] \in Results THEN st[n] ELSE "ERROR"
  BY ReadingSteps
<1> HIDE DEF n
<1>3. ASSUME NEW k \in Nat, k <= n, \A e \in Ends(line) : k < e
      PROVE  Reached(st[k], WordsUpTo(line, k), k)
  <2> DEFINE S == {j \in Nat : j <= n /\ (\A e \in Ends(line) : j < e)
                                => Reached(st[j], WordsUpTo(line, j), j)}
  <2>1. 0 \in S
    <3>1. WordsUpTo(line, 0) = {}
      BY <1>1 DEF WordsUpTo, WordsAt
    <3> QED
      BY <1>2, <3>1 DEF Reached
  <2>2. ASSUME NEW j \in Nat, j \in S, j + 1 <= n, \A e \in Ends(line) : j + 1 < e
        PROVE  Reached(st[j + 1], WordsUpTo(line, j + 1), j + 1)
    <3>1. j + 1 \in 1..n /\ j <= n
      BY <1>1, <2>2
    <3>2. \A e \in Ends(line) : j < e
      BY <1>1, <2>2 DEF Ends
    <3>3. Kind(line[j + 1]) # "end"
      BY <1>1, <2>2, <3>1 DEF Ends
    <3>4. st[j + 1] = TokenStep(st[j], line[j + 1])
      BY <1>2, <3>1
    <3>5. Reached(st[j], WordsUpTo(line, j), j)
      BY <2>2, <3>1, <3>2
    <3> QED
      BY <2>2, <3>3, <3>4, <3>5, OneMoreToken DEF n
  <2>3. \A j \in Nat : j \in S => j + 1 \in S
    BY <2>2
  <2> HIDE DEF S
  <2>4. k \in S
    BY <2>1, <2>3, Induction
  <2> QED
    BY <1>3, <2>4 DEF S
<1>4. \A k \in Nat : IsFiniteSet(WordsUpTo(line, k)) /\ WordsUpTo(line, k) \subseteq Nat
  <2>1. IsFiniteSet(1..n)
    BY <1>1, FS_Interval
  <2>2. \A k \in Nat : WordsUpTo(line, k) \subseteq 1..n
    BY <1>1 DEF WordsUpTo, WordsAt
  <2> QED
    BY <1>1, <2>1, <2>2, FS_Subset
<1>5. CASE Ends(line) = {}
  <2>1. Reached(st[n], WordsUpTo(line, n), n)
    BY <1>1, <1>3, <1>5
  <2>2. st[n] \in Results => st[n] = "ERROR"
    BY <2>1 DEF Reached, Results
  <2> QED
    BY <1>2, <1>5, <2>2 DEF Meaning
<1>6. CASE Ends(line) # {}
  <2> DEFINE e == Min(Ends(line))
             words == WordsUpTo(line, e - 1)
             result == CASE Cardinality(words) = 2 -> "OK"
                         [] Cardinality(words) = 0 -> "NO_LINE"
                         [] OTHER -> "ERROR"
  <2>1. e \in Ends(line) /\ \A k \in Ends(line) : e <= k
    <3>1. Ends(line) \subseteq Nat
      BY <1>1 DEF Ends
    <3> QED
      BY <1>6, <3>1, MinIs
  <2> HIDE DEF e
  <2>2. e \in 1..n /\ Kind(line[e]) = "end" /\ e - 1 \in Nat /\ e - 1 <= n
    BY <1>1, <2>1 DEF Ends
  <2>3. \A k \in Ends(line) : k \in Nat /\ e - 1 < k
    BY <1>1, <2>1, <2>2 DEF Ends
  <2>4. Reached(st[e - 1], words, e - 1)
    BY <1>3, <2>2, <2>3
  <2>5. st[e] = TokenStep(st[e - 1], line[e])
    BY <1>2, <2>2
  <2>6. IsFiniteSet(words) /\ words \subseteq Nat
    BY <1>4, <2>2
  <2>7. TokenStep(st[e - 1], line[e]) = result
    <3> HIDE DEF words
    <3> QED
      BY <2>2, <2>4, <2>6, EndCounts
  <2>8. result \in Results
    BY DEF Results
  <2>9. Uncommented(line) = words
    BY <1>1, <2>1, <2>2, <2>3 DEF Uncommented, WordsUpTo, WordsAt
  <2>10. Meaning(line) = result
    BY <1>6, <2>9 DEF Meaning
  <2> HIDE DEF result
  <2>11. st[n] = result
    <3> DEFINE S == {j \in Nat : e + j <= n => st[e + j] = result}
    <3>1. 0 \in S
      BY <2>2, <2>5, <2>7
    <3>2. ASSUME NEW j \in Nat, j \in S, e + (j + 1) <= n
          PROVE  st[e + (j + 1)] = result
      <4>1. e + (j + 1) \in 1..n /\ (e + (j + 1)) - 1 = e + j /\ e + j <= n
        BY <1>1, <2>2, <3>2
      <4>2. st[e + (j + 1)] = TokenStep(st[e + j], line[e + (j + 1)])
        BY <1>2, <4>1
      <4> QED
        BY <2>8, <3>2, <4>1, <4>2, TableOf
    <3>3. \A j \in Nat : j \in S => j + 1 \in S
      BY <3>2
    <3> HIDE DEF S
    <3>4. n - e \in Nat /\ e + (n - e) = n /\ e + (n - e) <= n
      BY <1>1, <2>2
    <3>5. n - e \in S
      BY <3>1, <3>3, <3>4, Induction
    <3>6. st[e + (n - e)] = result
      BY <3>4, <3>5 DEF S
    <3> QED
      BY <3>4, <3>6
  <2> QED
    BY <1>2, <2>8, <2>10, <2>11
<1> QED
  BY <1>5, <1>6
(* The two words of a setting are the first two of the line, whatever the  *)
(* comment after them has.                                                 *)
LEMMA WordsMeant ==
    ASSUME NEW line \in Seq(STRING), Meaning(line) = "OK"
    PROVE  Key(line) = KeyMeant(line) /\ Value(line) = ValueMeant(line)
<1> DEFINE all == WordsAt(line)
           words == Uncommented(line)
<1>1. Len(line) \in Nat /\ DOMAIN line = 1..Len(line)
  BY LenIs
<1>2. Ends(line) # {} /\ Cardinality(words) = 2
  BY DEF Meaning
<1>3. words \subseteq all /\ all \subseteq 1..Len(line)
  BY <1>1 DEF Uncommented, WordsAt
<1>4. \A a \in words, b \in all : b < a => b \in words
  <2>1. \A k \in Ends(line) : k \in Nat
    BY <1>1 DEF Ends
  <2> QED
    BY <1>3, <2>1 DEF Uncommented
<1> HIDE DEF all, words
<1>5. IsFiniteSet(words)
  <2>1. IsFiniteSet(1..Len(line)) /\ words \subseteq 1..Len(line)
    BY <1>1, <1>3, FS_Interval
  <2> QED
    BY <2>1, FS_Subset
<1>6. words # {} /\ words \subseteq Nat
  BY <1>2, <1>3, FS_EmptySet
<1>7. PICK a \in words : \A k \in words : a <= k
  BY <1>6, LeastElement
<1>8. Cardinality(words \ {a}) = 1 /\ IsFiniteSet(words \ {a})
  BY <1>2, <1>5, <1>7, FS_RemoveElement
<1>9. PICK b : words \ {a} = {b}
  BY <1>8, FS_Singleton
<1>10. words = {a, b} /\ a \in Nat /\ b \in Nat /\ a < b
  <2>1. b \in words /\ a # b /\ \A k \in words : k \in {a, b}
    BY <1>9
  <2>2. a \in Nat /\ b \in Nat /\ a <= b
    BY <1>6, <1>7, <2>1
  <2>3. words = {a, b}
    BY <1>7, <2>1, Zenon
  <2> QED
    BY <2>1, <2>2, <2>3
<1>11. all \subseteq Nat /\ a \in all /\ b \in all \ {a}
  BY <1>3, <1>10
<1>12. \A k \in all : a <= k
  BY <1>4, <1>7, <1>10, <1>11
<1>13. \A k \in all \ {a} : b <= k
  BY <1>4, <1>10, <1>11, <1>12
<1>14. Min(all) = a
  BY <1>11, <1>12, MinUnique
<1>15. Min(all \ {a}) = b
  <2>1. all \ {a} \subseteq Nat
    BY <1>11
  <2> QED
    BY <1>11, <1>13, <2>1, MinUnique
<1>16. Min(words) = a
  BY <1>6, <1>7, MinUnique
<1>17. Max(words) = b
  <2>1. words \subseteq 1..Len(line) /\ b \in words /\ \A k \in words : k <= b
    BY <1>3, <1>10
  <2> QED
    BY <1>1, <2>1, MaxUnique
<1> QED
  BY <1>14, <1>15, <1>16, <1>17 DEF Key, Value, KeyMeant, ValueMeant, all, words
-----------------------------------------------------------------------------
(* The arguments that are values: the recursion that IsValue states.       *)

Consumed(v, n) ==
    v = [p \in 1..n |-> p > 1 /\ ~v[p - 1] /\ argv[p - 1] \in Valued]

LEMMA ConsumedExists ==
    ASSUME NEW n \in Nat
    PROVE  \E v : Consumed(v, n)
<1> DEFINE S == {k \in Nat : \E v : Consumed(v, k)}
           Value1(v, p) == p > 1 /\ ~v[p - 1] /\ argv[p - 1] \in Valued
<1>1. 0 \in S
  <2> DEFINE v == [p \in 1..0 |-> TRUE]
  <2>1. Consumed(v, 0)
    <3>1. 1..0 = {}
      OBVIOUS
    <3> QED
      BY <3>1 DEF Consumed
  <2> QED
    BY <2>1
<1>2. ASSUME NEW k \in Nat, k \in S
      PROVE  k + 1 \in S
  <2>1. PICK v : Consumed(v, k)
    BY <1>2
  <2> DEFINE w == [p \in 1..(k + 1) |-> IF p = k + 1 THEN Value1(v, p) ELSE v[p]]
  <2>2. ASSUME NEW p \in 1..(k + 1)
        PROVE  w[p] = Value1(w, p)
    <3>1. CASE p = k + 1
      <4>1. w[p] = Value1(v, p)
        BY <3>1
      <4>2. p > 1 => p - 1 \in 1..(k + 1) /\ p - 1 # k + 1
        BY <3>1
      <4>3. p > 1 => w[p - 1] = v[p - 1]
        BY <4>2
      <4> QED
        BY <4>1, <4>3, Zenon
    <3>2. CASE p # k + 1
      <4>1. p \in 1..k
        BY <3>2
      <4>2. w[p] = v[p]
        BY <3>2
      <4>3. v[p] = Value1(v, p)
        BY <2>1, <4>1, Zenon DEF Consumed
      <4>4. p > 1 => p - 1 \in 1..(k + 1) /\ p - 1 # k + 1
        BY <4>1
      <4>5. p > 1 => w[p - 1] = v[p - 1]
        BY <4>4
      <4> QED
        BY <4>2, <4>3, <4>5, Zenon
    <3> QED
      BY <3>1, <3>2
  <2>3. w = [p \in 1..(k + 1) |-> w[p]]
    OBVIOUS
  <2> HIDE DEF w
  <2>4. Consumed(w, k + 1)
    BY <2>2, <2>3, Zenon DEF Consumed
  <2> QED
    BY <2>4
<1> HIDE DEF S
<1>3. n \in S
  BY <1>1, <1>2, Induction
<1> QED
  BY <1>3 DEF S

LEMMA IsValueIs ==
    ASSUME run \in Invocations, NEW p \in DOMAIN argv
    PROVE  IsValue[p] = (p > 1 /\ ~IsValue[p - 1] /\ argv[p - 1] \in Valued)
<1>1. Len(argv) \in Nat /\ DOMAIN argv = 1..Len(argv)
  BY ArgvTyped
<1>2. PICK n \in Nat : n = Len(argv)
  BY <1>1
<1>3. \E v : Consumed(v, n)
  BY <1>2, ConsumedExists
<1>4. DOMAIN argv = 1..n
  BY <1>1, <1>2
<1>5. IsValue = CHOOSE v : Consumed(v, n)
  BY <1>4, Zenon DEF IsValue, Consumed
<1>6. Consumed(IsValue, n)
  BY <1>3, <1>5, Zenon
<1> QED
  BY <1>4, <1>6, Zenon DEF Consumed
-----------------------------------------------------------------------------
(* The meaning of the arguments, one more argument or line at a time.      *)

(* It depends on the invocation, and on the log for what has been emptied. *)
LEMMA SameRun ==
    ASSUME run' = run
    PROVE  /\ argv' = argv /\ text' = text /\ bytes' = bytes
           /\ IsValue' = IsValue /\ Programs' = Programs /\ Program' = Program
           /\ \A p : OpensLog(p)' <=> OpensLog(p)
           /\ \A p, options : /\ ValueOf(p, options)' <=> ValueOf(p, options)
                              /\ IsOption(p, options)' <=> IsOption(p, options)
<1> DEFINE F(a) == CHOOSE v : v = [p \in DOMAIN a |-> p > 1 /\ ~v[p - 1] /\ a[p - 1] \in Valued]
<1>1. argv' = argv /\ text' = text /\ bytes' = bytes
  BY DEF argv, text, bytes
<1>2. IsValue = F(argv) /\ IsValue' = F(argv')
  BY Zenon DEF IsValue
<1> HIDE DEF F
<1>3. IsValue' = IsValue
  BY <1>1, <1>2
<1>4. Programs' = Programs
  BY <1>1, <1>3 DEF Programs
<1>5. \A p, options : /\ ValueOf(p, options)' <=> ValueOf(p, options)
                      /\ IsOption(p, options)' <=> IsOption(p, options)
  BY <1>1, <1>3, Zenon DEF ValueOf, IsOption
<1>6. \A p : OpensLog(p)' <=> OpensLog(p)
  BY <1>1, <1>5, Zenon DEF OpensLog
<1> QED
  BY <1>1, <1>3, <1>4, <1>5, <1>6 DEF Program
Opened(n) == \E q \in 1..n : OpensLog(q)

LEMMA SameMeaning ==
    ASSUME run' = run, NEW n \in Nat, \A p \in 1..n : Emptied(p)' <=> Emptied(p)
    PROVE  /\ \A p \in 1..n : TextAt(p)' = TextAt(p) /\ BytesAt(p)' = BytesAt(p)
           /\ \A p \in 1..n : \A key : /\ LinesFor(p, key)' = LinesFor(p, key)
                                        /\ ArgumentGives(p, key)' <=> ArgumentGives(p, key)
                                        /\ Given(p, key)' = Given(p, key)
           /\ \A m \in 0..n : \A key : After(key, m)' = After(key, m)
<1>1. \A p \in 1..n : TextAt(p)' = TextAt(p) /\ BytesAt(p)' = BytesAt(p)
  BY SameRun DEF TextAt, BytesAt
<1>2. \A p \in 1..n : \A key : LinesFor(p, key)' = LinesFor(p, key)
  BY <1>1, Zenon DEF LinesFor
<1>3. \A p \in 1..n : \A key : ArgumentGives(p, key)' <=> ArgumentGives(p, key)
  BY <1>2, SameRun, Zenon DEF ArgumentGives
<1>4. ASSUME NEW p \in 1..n, NEW key
      PROVE  Given(p, key)' = Given(p, key)
  <2>1. TextAt(p)' = TextAt(p) /\ LinesFor(p, key)' = LinesFor(p, key) /\ argv' = argv
    BY <1>1, <1>2, SameRun
  <2>2. \A options : /\ ValueOf(p, options)' <=> ValueOf(p, options)
                     /\ IsOption(p, options)' <=> IsOption(p, options)
    BY SameRun
  <2> QED
    BY <2>1, <2>2 DEF Given
<1>5. ASSUME NEW m \in 0..n, NEW key
      PROVE  After(key, m)' = After(key, m)
  <2> DEFINE givers == {p \in 1..m : ArgumentGives(p, key)}
  <2>1. \A p \in 1..m : p \in 1..n
    OBVIOUS
  <2>2. givers' = givers
    BY <1>3, <2>1
  <2>3. givers # {} => Max(givers) \in 1..n
    <3>1. givers \subseteq 1..m /\ m \in Nat
      OBVIOUS
    <3> HIDE DEF givers
    <3> QED
      BY <2>1, <3>1, MaxIs
  <2> HIDE DEF givers
  <2>4. /\ After(key, m) = IF givers = {} THEN Default(key) ELSE Given(Max(givers), key)
        /\ After(key, m)' = IF givers' = {} THEN Default(key) ELSE Given(Max(givers), key)'
    BY DEF After, givers, Default
  <2>5. givers # {} => Given(Max(givers), key)' = Given(Max(givers), key)
    <3>1. PICK p : p = Max(givers)
      OBVIOUS
    <3>2. ASSUME givers # {} PROVE Given(p, key)' = Given(p, key)
      BY <1>4, <2>3, <3>1, <3>2
    <3>3. Max(givers') = Max(givers)
      BY <2>2
    <3> QED
      BY <3>1, <3>2, <3>3
  <2> QED
    BY <1>4, <2>2, <2>4, <2>5
<1> QED
  BY <1>1, <1>2, <1>3, <1>4, <1>5
(* The last of some positions, when one more is considered. *)
LEMMA LastPosition ==
    ASSUME NEW n \in Nat, NEW S, NEW T, S \subseteq 1..n,
           T = S \/ T = S \cup {n + 1}
    PROVE  n + 1 \in T => T # {} /\ Max(T) = n + 1
<1> SUFFICES ASSUME n + 1 \in T PROVE T # {} /\ Max(T) = n + 1
  OBVIOUS
<1>1. ASSUME NEW m \in T
      PROVE  m \in 1..(n + 1)
  <2>1. m \in 1..n \/ m = n + 1
    OBVIOUS
  <2> QED
    BY <2>1
<1>2. T \subseteq 1..(n + 1) /\ n + 1 \in Nat
  BY <1>1
<1>3. \A m \in T : m <= n + 1
  BY <1>1
<1> QED
  BY <1>2, <1>3, MaxUnique

LEMMA OneMoreArgument ==
    ASSUME NEW n \in Nat, NEW key
    PROVE  After(key, n + 1) = IF ArgumentGives(n + 1, key) THEN Given(n + 1, key)
                               ELSE After(key, n)
<1> DEFINE old == {p \in 1..n : ArgumentGives(p, key)}
           new == {p \in 1..(n + 1) : ArgumentGives(p, key)}
<1>1. new = old \cup (IF ArgumentGives(n + 1, key) THEN {n + 1} ELSE {})
  OBVIOUS
<1>2. old \subseteq 1..n /\ n + 1 \notin old
  OBVIOUS
<1>3. /\ After(key, n) = IF old = {} THEN Default(key) ELSE Given(Max(old), key)
      /\ After(key, n + 1) = IF new = {} THEN Default(key) ELSE Given(Max(new), key)
  BY DEF After
<1> HIDE DEF old, new
<1>4. CASE ArgumentGives(n + 1, key)
  <2>1. new = old \cup {n + 1} /\ n + 1 \in new
    BY <1>1, <1>4
  <2>2. new # {} /\ Max(new) = n + 1
    BY <1>2, <2>1, LastPosition
  <2> QED
    BY <1>3, <1>4, <2>2
<1>5. CASE ~ArgumentGives(n + 1, key)
  <2>1. new = old
    BY <1>1, <1>5
  <2> QED
    BY <1>3, <1>5, <2>1
<1> QED
  BY <1>4, <1>5

(* A setting after j lines of the configuration file p. *)
AfterLines(key, p, j) ==
    LET given == {k \in 1..j : Gives(TextAt(p)[k], key)}
    IN  IF given = {} THEN After(key, p - 1)
        ELSE Numerals[ValueMeant(TextAt(p)[Max(given)])]

LEMMA NoLineYet ==
    ASSUME NEW key, NEW p
    PROVE  AfterLines(key, p, 0) = After(key, p - 1)
<1>1. {k \in 1..0 : Gives(TextAt(p)[k], key)} = {}
  OBVIOUS
<1> QED
  BY <1>1 DEF AfterLines

LEMMA OneMoreLine ==
    ASSUME NEW key, NEW p, NEW j \in Nat
    PROVE  AfterLines(key, p, j + 1)
             = IF Gives(TextAt(p)[j + 1], key) THEN Numerals[ValueMeant(TextAt(p)[j + 1])]
               ELSE AfterLines(key, p, j)
<1> DEFINE old == {k \in 1..j : Gives(TextAt(p)[k], key)}
           new == {k \in 1..(j + 1) : Gives(TextAt(p)[k], key)}
<1>1. new = old \cup (IF Gives(TextAt(p)[j + 1], key) THEN {j + 1} ELSE {})
  OBVIOUS
<1>2. old \subseteq 1..j /\ j + 1 \notin old
  OBVIOUS
<1>3. /\ AfterLines(key, p, j) = IF old = {} THEN After(key, p - 1)
                                 ELSE Numerals[ValueMeant(TextAt(p)[Max(old)])]
      /\ AfterLines(key, p, j + 1) = IF new = {} THEN After(key, p - 1)
                                     ELSE Numerals[ValueMeant(TextAt(p)[Max(new)])]
  BY DEF AfterLines
<1> HIDE DEF old, new
<1>4. CASE Gives(TextAt(p)[j + 1], key)
  <2>1. new = old \cup {j + 1} /\ j + 1 \in new
    BY <1>1, <1>4
  <2>2. new # {} /\ Max(new) = j + 1
    BY <1>2, <2>1, LastPosition
  <2> QED
    BY <1>3, <1>4, <2>2
<1>5. CASE ~Gives(TextAt(p)[j + 1], key)
  <2>1. new = old
    BY <1>1, <1>5
  <2> QED
    BY <1>3, <1>5, <2>1
<1> QED
  BY <1>4, <1>5

(* All lines of a file: what its argument gives. *)
LEMMA AllLines ==
    ASSUME NEW p \in Nat, p > 0, NEW key \in Keys, ValueOf(p, ConfigFile),
           NEW n, DOMAIN TextAt(p) = 1..n
    PROVE  AfterLines(key, p, n) = After(key, p)
<1>1. LinesFor(p, key) = {k \in 1..n : Gives(TextAt(p)[k], key)}
  BY DEF LinesFor
<1>2. AfterLines(key, p, n) = IF LinesFor(p, key) = {} THEN After(key, p - 1)
                              ELSE Numerals[ValueMeant(TextAt(p)[Max(LinesFor(p, key))])]
  BY <1>1 DEF AfterLines
<1>3. ArgumentGives(p, key) <=> LinesFor(p, key) # {}
  <2>1. ~ValueOf(p, WordSize) /\ ~ValueOf(p, RamSize) /\ ~IsOption(p, ExtendedIo)
    BY DEF ValueOf, IsOption, ConfigFile, WordSize, RamSize
  <2> QED
    BY <2>1 DEF ArgumentGives
<1>4. Given(p, key) = Numerals[ValueMeant(TextAt(p)[Max(LinesFor(p, key))])]
  BY DEF Given, ValueOf, IsOption
<1>5. p - 1 \in Nat /\ (p - 1) + 1 = p
  OBVIOUS
<1>6. After(key, (p - 1) + 1) = IF ArgumentGives((p - 1) + 1, key) THEN Given((p - 1) + 1, key)
                                ELSE After(key, p - 1)
  BY <1>5, OneMoreArgument
<1> QED
  BY <1>2, <1>3, <1>4, <1>5, <1>6
-----------------------------------------------------------------------------
(* The invariant: what the state is, in terms of the arguments and of the  *)
(* lines that have been read.                                              *)

Live == phase \in {"parse_arg", "applyConfig"}

(* The flags are up exactly when the next argument is a value. *)
Awaiting ==
    /\ phase = "parse_arg" =>
         (reading # {} <=> next > 1 /\ ~IsValue[next - 1] /\ argv[next - 1] \in Valued)
    /\ phase = "applyConfig" => IsValue[next - 1]

(* After j lines of the configuration file that is argument p. *)
Applying(p, j) ==
    phase = "applyConfig" /\ p = next - 1 /\ j = Len(TextAt(p)) - Len(lines)

(* The lines that are left are the end of the file. *)
LinesLeft ==
    \A p, j : Applying(p, j) =>
        /\ Emptied(p) \/ argv[p] \in DOMAIN text
        /\ TextAt(p) \in Seq(Seq(STRING)) /\ lines \in Seq(Seq(STRING))
        /\ \A k \in DOMAIN TextAt(p) : WordsApart(TextAt(p)[k])
        /\ j \in Nat
        /\ \A k \in 1..Len(lines) : lines[k] = TextAt(p)[j + k]

(* The log is open when an argument, or a line of this file, opened it.    *)
LogKnown ==
    /\ phase = "parse_arg" => (log # "" <=> Opened(next - 1))
    /\ \A p, j : Applying(p, j) =>
         (log # "" <=> Opened(p - 1) \/ \E k \in 1..j : Gives(TextAt(p)[k], "log"))

(* The configuration c has this value for a key. *)
Has(c, key, value) ==
    /\ key \in Settings => c[key] = value
    /\ key = "extended_io" => c.extended_io = (value # 0)
    /\ key \in DOMAIN IntFreq => /\ c.enable[IntFreq[key]] = (value # 0)
                                 /\ c.freq[IntFreq[key]] = ToInt(value)

ConfigKnown ==
    /\ \A n : phase \in {"parse_arg", "reflet_run"} /\ n = next - 1 =>
         \A key \in Keys : Has(config, key, After(key, n))
    /\ \A p, j : Applying(p, j) =>
         \A key \in Keys : Has(config, key, AfterLines(key, p, j))

ProgramKnown ==
    /\ Live /\ rom = 0 => \A p \in 1..(next - 1) : p \notin Programs
    /\ rom # 0 => rom \in Programs /\ \A p \in Programs : rom <= p
    /\ phase = "RET_INVALID_ARGS" => Programs = {}
    /\ phase = "reflet_run" => rom # 0 /\ next = Len(argv) + 1

IgnoreKnown ==
    Live => (ignore_first_line <=> \E p \in 1..(next - 1) : IsOption(p, IgnoreFirstLine))

(* What the cells of the RAM are, once argument p is loaded. *)
CellGiven(p, a) ==
    \/ ram[a] = CellOf(BytesGiven(p), a)
    \/ /\ a \in {After("tx_cmd", p - 1), After("rx_cmd", p - 1)}
       /\ CellOf(BytesGiven(p), a) = 0 /\ ram[a] = 1

Loaded ==
    \A p : p = rom /\ p # 0 /\ (Live \/ phase = "reflet_run") =>
        /\ BytesGiven(p) \in Seq(Byte) /\ After("ram_size", p - 1) \in Nat
        /\ DOMAIN ram = 0..(After("ram_size", p - 1) - 1)
        /\ Len(BytesGiven(p)) < After("ram_size", p - 1)
        /\ \A a \in DOMAIN ram :
             \/ CellGiven(p, a)
             \/ phase = "reflet_run" /\ config.extended_io /\ a = IO_CMD /\ ram[a] = IO_NOP

MInv == /\ Awaiting /\ LinesLeft /\ LogKnown /\ ConfigKnown
        /\ ProgramKnown /\ IgnoreKnown /\ Loaded

(* What is known of every state from the proofs above. *)
Base == TypeInv /\ IInv

LEMMA SameLines ==
    ASSUME run' = run, NEW n \in Nat, \A p \in 1..n : Emptied(p)' <=> Emptied(p)
    PROVE  /\ \A p \in 1..n : \A j, key : AfterLines(key, p, j)' = AfterLines(key, p, j)
           /\ \A p \in 1..n : BytesGiven(p)' = BytesGiven(p)
<1>1. \A p \in 1..n : TextAt(p)' = TextAt(p) /\ BytesAt(p)' = BytesAt(p)
  BY SameMeaning
<1>2. \A p \in 1..n : p - 1 \in 0..n
  OBVIOUS
<1>3. \A p \in 1..n : \A key : After(key, p - 1)' = After(key, p - 1)
  BY <1>2, SameMeaning
<1>4. ASSUME NEW p \in 1..n, NEW j, NEW key
      PROVE  AfterLines(key, p, j)' = AfterLines(key, p, j)
  <2>1. TextAt(p)' = TextAt(p) /\ After(key, p - 1)' = After(key, p - 1)
    BY <1>1, <1>3
  <2> QED
    BY <2>1 DEF AfterLines
<1>5. ASSUME NEW p \in 1..n
      PROVE  BytesGiven(p)' = BytesGiven(p)
  <2>1. BytesAt(p)' = BytesAt(p)
    BY <1>1
  <2>2. \A q : IsOption(q, IgnoreFirstLine)' <=> IsOption(q, IgnoreFirstLine)
    BY SameRun
  <2> QED
    BY <2>1, <2>2 DEF BytesGiven
<1> QED
  BY <1>4, <1>5

LEMMA Before ==
    ASSUME NEW n \in Nat, NEW m \in Nat, n < m
    PROVE  n <= m - 1 /\ m - 1 \in Nat
OBVIOUS

LEMMA NotMore ==
    ASSUME NEW n \in Nat, NEW m, n = m
    PROVE  n <= m /\ n \in 0..m
OBVIOUS

LEMMA OneMore ==
    ASSUME NEW n \in Nat, n > 0, NEW m, m = n + 1
    PROVE  m > 1
OBVIOUS

LEMMA InRange ==
    ASSUME NEW r \in Nat, NEW m \in Nat, r < m, NEW p, p = r, p # 0
    PROVE  p \in 1..m /\ p - 1 \in 0..m
OBVIOUS

LEMMA Itself ==
    ASSUME NEW n \in Nat, n > 0, NEW p, p = n
    PROVE  p \in Nat /\ p \in 1..n
OBVIOUS

LEMMA Predecessor ==
    ASSUME NEW n \in Nat, n > 2
    PROVE  \E m \in Nat : m = n - 1 /\ m < n /\ m <= n
OBVIOUS

LEMMA Successor ==
    ASSUME NEW j \in Nat
    PROVE  /\ j + 1 \in Nat
           /\ \A k : k \in 1..(j + 1) <=> k \in 1..j \/ k = j + 1
OBVIOUS

LEMMA BeforeRange ==
    ASSUME NEW r \in Nat, NEW m \in Nat, r < m, r # 0
    PROVE  r \in 1..(m - 1) /\ r - 1 \in 0..(m - 1)
OBVIOUS

LEMMA OtherRange ==
    ASSUME NEW n \in Nat, NEW m \in Nat, n <= m, NEW p \in 1..n
    PROVE  \A q \in 1..(p - 1) : q \in 1..(m - 1)
OBVIOUS

(* A file that is not empty yet may become the log, and then is empty for  *)
(* the arguments that come next only.                                      *)
LEMMA NoneEmptied ==
    ASSUME Base, MInv, run' = run, log' = log \/ log = "",
           NEW n \in Nat, n <= next, phase = "parse_arg" \/ (phase = "applyConfig" /\ n < next)
    PROVE  \A p \in 1..n : Emptied(p)' <=> Emptied(p)
<1> SUFFICES ASSUME NEW p \in 1..n
             PROVE  Emptied(p)' <=> Emptied(p)
  OBVIOUS
<1>1. argv' = argv /\ \A q : OpensLog(q)' <=> OpensLog(q)
  BY SameRun
<1>2. CASE log' = log
  BY <1>1, <1>2 DEF Emptied
<1>3. CASE log = ""
  <2>0. next \in Nat /\ n \in Nat /\ n <= next /\ p \in 1..n
    BY DEF Base, IInv, Places
  <2>1. \A q \in 1..(p - 1) : ~OpensLog(q)
    <3>1. CASE phase = "parse_arg"
      <4>1. ~Opened(next - 1)
        BY <1>3, <3>1 DEF MInv, LogKnown
      <4>2. \A q \in 1..(p - 1) : q \in 1..(next - 1)
        BY <2>0, OtherRange
      <4> QED
        BY <4>1, <4>2 DEF Opened
    <3>2. CASE phase = "applyConfig" /\ n < next
      <4>1. PICK m, j : m = next - 1 /\ j = Len(TextAt(m)) - Len(lines)
        OBVIOUS
      <4>2. ~Opened(m - 1)
        BY <1>3, <3>2, <4>1 DEF MInv, LogKnown, Applying
      <4>3. \A q \in 1..(p - 1) : q \in 1..(m - 1)
        <5>1. next \in Nat /\ n \in Nat /\ n < next /\ m = next - 1
          BY <2>0, <3>2, <4>1
        <5>2. n <= m /\ m \in Nat
          BY <5>1, Before
        <5> QED
          BY <2>0, <5>2, OtherRange
      <4> QED
        BY <4>2, <4>3 DEF Opened
    <3> QED
      BY <3>1, <3>2
  <2> QED
    BY <1>1, <2>1 DEF Emptied
<1> QED
  BY <1>2, <1>3

(* The process ends, before the program runs. *)
LEMMA Ending ==
    ASSUME MInv, run' = run, rom' = rom, phase' \in Final \ {"reflet_run", "RET_INVALID_ARGS"}
    PROVE  MInv'
<1>1. phase' \notin {"parse_arg", "applyConfig", "reflet_run", "RET_INVALID_ARGS"}
  BY Phases
<1>2. Programs' = Programs
  BY SameRun
<1>3. ProgramKnown'
  BY <1>1, <1>2 DEF MInv, ProgramKnown, Live
<1> QED
  BY <1>1, <1>3 DEF MInv, Awaiting, LinesLeft, LogKnown, ConfigKnown, IgnoreKnown,
                    Loaded, Live, Applying
LEMMA InitMeant == Init => MInv
<1> SUFFICES ASSUME Init PROVE MInv
  OBVIOUS
<1>1. /\ next = 1 /\ reading = {} /\ ignore_first_line = FALSE /\ rom = 0
      /\ config = DefaultConfig /\ log = "" /\ phase = "parse_arg"
  BY DEF Init
<1>a. 1 - 1 = 0 /\ ~(1 > 1)
  OBVIOUS
<1>b. 1..0 = {}
  OBVIOUS
<1>2. next - 1 = 0 /\ 1..(next - 1) = {}
  BY <1>1, <1>a, <1>b, Zenon
<1>3. Awaiting /\ LinesLeft /\ Loaded
  BY <1>1, <1>a DEF Awaiting, LinesLeft, Loaded, Applying
<1>6. LogKnown /\ IgnoreKnown
  BY <1>1, <1>2 DEF LogKnown, IgnoreKnown, Applying, Opened
<1>4. ProgramKnown
  BY <1>1, <1>2 DEF ProgramKnown
<1>5. ConfigKnown
  <2>1. \A key : After(key, 0) = Default(key)
    <3>1. \A key : {p \in 1..0 : ArgumentGives(p, key)} = {}
      OBVIOUS
    <3> QED
      BY <3>1 DEF After
  <2>2. /\ DefaultConfig.extended_io = FALSE
        /\ \A key \in DOMAIN IntFreq : /\ DefaultConfig.freq[IntFreq[key]] = 0
                                       /\ DefaultConfig.enable[IntFreq[key]] = FALSE
    BY Strings DEF DefaultConfig
  <2>3. \A key \in Keys : Has(DefaultConfig, key, Default(key))
    BY <2>2, Strings, ToIntType DEF Has, Default
  <2> QED
    BY <1>1, <1>2, <2>1, <2>3 DEF ConfigKnown, Applying
<1> QED
  BY <1>3, <1>4, <1>5, <1>6 DEF MInv

-----------------------------------------------------------------------------
(* An argument is read. *)

LEMMA BeforeArgument ==
    ASSUME Base, MInv, ParseArg
    PROVE  /\ phase = "parse_arg" /\ next' = next + 1 /\ run' = run
           /\ next \in Nat /\ next > 0
           /\ next - 1 \in Nat /\ next' - 1 = next /\ (next - 1) + 1 = next
           /\ next \in DOMAIN argv /\ run \in Invocations
           /\ rom \in Nat /\ rom < next
           /\ IsValue[next] <=> reading # {}
<1>1. /\ phase = "parse_arg" /\ next <= Len(argv) /\ next' = next + 1 /\ run' = run
  BY DEF ParseArg
<1>2. next \in 1..(Len(argv) + 1) /\ run \in Invocations /\ rom \in 0..(next - 1)
  BY DEF Base, TypeInv, TypeOK
<1>3. Len(argv) \in Nat /\ DOMAIN argv = 1..Len(argv)
  BY <1>2, ArgvTyped
<1>4. next \in Nat /\ next > 0 /\ rom \in Nat /\ rom < next
  BY <1>2, <1>3
<1>5. next \in DOMAIN argv
  BY <1>1, <1>3, <1>4
<1>6. IsValue[next] <=> reading # {}
  <2>1. IsValue[next] = (next > 1 /\ ~IsValue[next - 1] /\ argv[next - 1] \in Valued)
    BY <1>2, <1>5, IsValueIs
  <2>2. reading # {} <=> next > 1 /\ ~IsValue[next - 1] /\ argv[next - 1] \in Valued
    BY <1>1 DEF MInv, Awaiting
  <2> QED
    BY <2>1, <2>2
<1>7. next - 1 \in Nat /\ next' - 1 = next /\ (next - 1) + 1 = next
  BY <1>1, <1>4
<1> QED
  BY <1>1, <1>2, <1>4, <1>5, <1>6, <1>7

(* The meaning of the arguments up to this one does not change. *)
LEMMA SameArguments ==
    ASSUME Base, MInv, ParseArg, log' = log \/ log = ""
    PROVE  /\ \A m \in 0..next : \A key : After(key, m)' = After(key, m)
           /\ \A p \in 1..next : TextAt(p)' = TextAt(p) /\ BytesGiven(p)' = BytesGiven(p)
           /\ \A p \in 1..next : \A j, key : AfterLines(key, p, j)' = AfterLines(key, p, j)
           /\ \A p \in 1..next : Emptied(p)' <=> Emptied(p)
<1>1. phase = "parse_arg" /\ run' = run /\ next \in Nat
  BY BeforeArgument
<1>2. PICK n \in Nat : n = next
  BY <1>1
<1>3. n \in Nat /\ n <= next
  BY <1>1, <1>2, NotMore
<1>4. \A p \in 1..n : Emptied(p)' <=> Emptied(p)
  BY <1>1, <1>3, NoneEmptied
<1>5. /\ \A m \in 0..n : \A key : After(key, m)' = After(key, m)
      /\ \A p \in 1..n : TextAt(p)' = TextAt(p)
  BY <1>1, <1>3, <1>4, SameMeaning
<1>6. /\ \A p \in 1..n : \A j, key : AfterLines(key, p, j)' = AfterLines(key, p, j)
      /\ \A p \in 1..n : BytesGiven(p)' = BytesGiven(p)
  BY <1>1, <1>3, <1>4, SameLines
<1> QED
  BY <1>2, <1>4, <1>5, <1>6

(* The configuration after an argument, from what the argument gives. *)
LEMMA ConfigAfterArgument ==
    ASSUME Base, MInv, ParseArg, log' = log \/ log = "", phase' # "applyConfig",
           \A key \in Keys :
              IF ArgumentGives(next, key) THEN Has(config', key, Given(next, key))
              ELSE Has(config, key, After(key, next - 1)) => Has(config', key, After(key, next - 1))
    PROVE  ConfigKnown'
<1>1. /\ phase = "parse_arg" /\ next - 1 \in Nat /\ (next - 1) + 1 = next /\ next' - 1 = next
  BY BeforeArgument
<1>2. ASSUME NEW n, n = next' - 1, NEW key \in Keys
      PROVE  Has(config', key, After(key, n)')
  <2>b. n = next' - 1 /\ next' - 1 = next /\ next \in Nat
    BY <1>2, BeforeArgument
  <2>a. n = next /\ n \in Nat
    BY <2>b, Zenon
  <2>0. n = next /\ n \in 0..next
    BY <2>a, NotMore
  <2>1. After(key, n)' = After(key, n)
    BY <2>0, SameArguments
  <2>2. After(key, (next - 1) + 1) = IF ArgumentGives((next - 1) + 1, key)
                                     THEN Given((next - 1) + 1, key)
                                     ELSE After(key, next - 1)
    BY <1>1, OneMoreArgument
  <2>3. After(key, next) = IF ArgumentGives(next, key) THEN Given(next, key)
                           ELSE After(key, next - 1)
    BY <1>1, <2>2
  <2>4. Has(config, key, After(key, next - 1))
    BY <1>1 DEF MInv, ConfigKnown
  <2>5. Has(config', key, After(key, n))
    BY <2>0, <2>3, <2>4
  <2> QED
    BY <2>1, <2>5
<1> QED
  BY <1>2 DEF ConfigKnown, Applying, Keys, Has, Addressing, Settings, IntFreq
(* The indices up to this argument are those before it, and its own. *)
LEMMA UpToArgument ==
    ASSUME Base, MInv, ParseArg
    PROVE  \A p : p \in 1..(next' - 1) <=> p \in 1..(next - 1) \/ p = next
<1>1. next \in Nat /\ next > 0 /\ next' - 1 = next
  BY BeforeArgument
<1>2. \A p : p \in 1..next <=> p \in 1..(next - 1) \/ p = next
  BY <1>1
<1> QED
  BY <1>1, <1>2, Zenon

(* The program is not loaded by this argument. *)
LEMMA ProgramAfterArgument ==
    ASSUME Base, MInv, ParseArg, log' = log \/ log = "",
           phase' \in {"parse_arg", "applyConfig"}, UNCHANGED <<rom, ram>>,
           rom = 0 => next \notin Programs
    PROVE  ProgramKnown' /\ Loaded'
<1>1. phase = "parse_arg" /\ run' = run /\ next \in Nat /\ rom \in Nat /\ rom < next
  BY BeforeArgument
<1>2. ProgramKnown'
  <2>1. Programs' = Programs
    BY <1>1, SameRun
  <2>2. rom = 0 => \A p \in 1..(next - 1) : p \notin Programs
    BY <1>1 DEF MInv, ProgramKnown, Live
  <2>3. rom = 0 => \A p \in 1..(next' - 1) : p \notin Programs
    BY <2>2, UpToArgument, Zenon
  <2>4. rom # 0 => rom \in Programs /\ \A p \in Programs : rom <= p
    BY DEF MInv, ProgramKnown
  <2> QED
    BY <2>1, <2>3, <2>4 DEF ProgramKnown
<1>3. Loaded'
  <2> SUFFICES ASSUME NEW p, p = rom, p # 0
               PROVE  /\ BytesGiven(p)' \in Seq(Byte) /\ After("ram_size", p - 1)' \in Nat
                      /\ DOMAIN ram = 0..(After("ram_size", p - 1)' - 1)
                      /\ Len(BytesGiven(p))' < After("ram_size", p - 1)'
                      /\ \A a \in DOMAIN ram : CellGiven(p, a)'
    BY DEF Loaded
  <2>1. /\ BytesGiven(p) \in Seq(Byte) /\ After("ram_size", p - 1) \in Nat
        /\ DOMAIN ram = 0..(After("ram_size", p - 1) - 1)
        /\ Len(BytesGiven(p)) < After("ram_size", p - 1)
        /\ \A a \in DOMAIN ram : CellGiven(p, a)
    BY <1>1 DEF MInv, Loaded, Live
  <2>2. p \in 1..next /\ p - 1 \in 0..next
    BY <1>1, InRange
  <2>3. BytesGiven(p)' = BytesGiven(p) /\ \A key : After(key, p - 1)' = After(key, p - 1)
    BY <2>2, SameArguments
  <2>4. \A a : CellGiven(p, a)' <=> CellGiven(p, a)
    BY <2>3 DEF CellGiven, CellOf
  <2> QED
    BY <2>1, <2>3, <2>4
<1> QED
  BY <1>2, <1>3

(* What remains to be seen for each kind of argument. *)
LEMMA AfterArgument ==
    ASSUME Base, MInv, ParseArg, phase' = "parse_arg", log' = log \/ log = "",
           ConfigKnown', ProgramKnown', Loaded',
           reading' # {} <=> ~IsValue[next] /\ argv[next] \in Valued,
           log' # "" <=> log # "" \/ OpensLog(next),
           ignore_first_line' <=> ignore_first_line \/ IsOption(next, IgnoreFirstLine)
    PROVE  MInv'
<1>1. /\ phase = "parse_arg" /\ run' = run /\ next \in Nat /\ next > 0 /\ next' - 1 = next
      /\ next' = next + 1
  BY BeforeArgument
<1>2. IsValue' = IsValue /\ argv' = argv
  BY <1>1, SameRun
<1>3. Awaiting'
  <2>1. next' > 1
    BY <1>1, OneMore
  <2> QED
    BY <1>1, <1>2, <2>1 DEF Awaiting
<1>4. LinesLeft'
  BY DEF LinesLeft, Applying
<1>5. LogKnown'
  <2>1. log # "" <=> \E q \in 1..(next - 1) : OpensLog(q)
    BY <1>1 DEF MInv, LogKnown, Opened
  <2>2. log' # "" <=> \E q \in 1..(next' - 1) : OpensLog(q)
    BY <2>1, UpToArgument, Zenon
  <2>3. log' # "" <=> \E q \in 1..(next' - 1) : OpensLog(q)'
    BY <1>1, <2>2, SameRun, Zenon
  <2> QED
    BY <2>3 DEF LogKnown, Opened, Applying
<1>6. IgnoreKnown'
  <2>1. ignore_first_line <=> \E p \in 1..(next - 1) : IsOption(p, IgnoreFirstLine)
    BY <1>1 DEF MInv, IgnoreKnown, Live
  <2>2. ignore_first_line' <=> \E p \in 1..(next' - 1) : IsOption(p, IgnoreFirstLine)
    BY <2>1, UpToArgument, Zenon
  <2>3. ignore_first_line' <=> \E p \in 1..(next' - 1) : IsOption(p, IgnoreFirstLine)'
    BY <1>1, <2>2, SameRun, Zenon
  <2> QED
    BY <2>3 DEF IgnoreKnown
<1> QED
  BY <1>3, <1>4, <1>5, <1>6 DEF MInv
(* The file that is read is the one the arguments mean. *)
LEMMA FileMeant ==
    ASSUME Base, MInv, ParseArg, Readable(Arg)
    PROVE  /\ TextOf(Arg) = TextAt(next) /\ BytesOf(Arg) = BytesAt(next)
           /\ Emptied(next) \/ argv[next] \in DOMAIN text
<1>1. phase = "parse_arg" /\ run \in Invocations
  BY BeforeArgument
<1>2. log # "" <=> \E q \in 1..(next - 1) : OpensLog(q)
  BY <1>1 DEF MInv, LogKnown, Opened
<1>3. Arg = argv[next]
  BY DEF Arg
<1>4. Arg = log <=> Emptied(next)
  <2>1. "" \notin DOMAIN bytes
    BY <1>1, BootAssumption DEF bytes
  <2>2. Arg = log => log # ""
    BY <2>1 DEF Readable
  <2> QED
    BY <1>2, <1>3, <2>2 DEF Emptied
<1>5. Arg = log \/ Arg \in DOMAIN text
  <2>1. DOMAIN text = DOMAIN bytes
    BY <1>1, BootAssumption DEF text, bytes
  <2> QED
    BY <2>1 DEF Readable
<1> QED
  BY <1>3, <1>4, <1>5 DEF TextOf, BytesOf, TextAt, BytesAt

(* The value of an option is nothing else. *)
LEMMA ValueRead ==
    ASSUME Base, MInv, ParseArg, NEW flag \in reading \cap Flags
    PROVE  /\ reading = {flag} /\ ValueOf(next, OptionOf[flag])
           /\ \A options : ~IsOption(next, options)
           /\ \A other \in Flags \ {flag} : ~ValueOf(next, OptionOf[other])
           /\ next \notin Programs /\ IsValue[next]
<1>1. phase = "parse_arg" /\ IsValue[next]
  BY BeforeArgument
<1>2. reading = {flag} /\ argv[next - 1] \in OptionOf[flag]
  BY <1>1, AwaitedAfterProgram DEF Base
<1>3. \A other \in Flags \ {flag} : OptionOf[other] \cap OptionOf[flag] = {}
  BY DEF Flags, OptionOf, ConfigFile, WordSize, RamSize, LogFile
<1>4. next \notin Programs
  BY <1>1 DEF Programs
<1> QED
  BY <1>1, <1>2, <1>3, <1>4 DEF ValueOf, IsOption

(* What a value gives. *)
LEMMA ValueGives ==
    ASSUME Base, MInv, ParseArg, NEW flag \in {"word_size", "ram_size", "log_file"}, flag \in reading,
           NEW key
    PROVE  /\ ArgumentGives(next, key) <=> key = flag /\ flag # "log_file"
           /\ Given(next, key) = Numerals[Arg]
           /\ OpensLog(next) <=> flag = "log_file"
<1>1. flag \in Flags /\ "config_file" \in Flags \ {flag}
  BY DEF Flags
<1>2. /\ ValueOf(next, OptionOf[flag])
      /\ \A options : ~IsOption(next, options)
      /\ \A other \in Flags \ {flag} : ~ValueOf(next, OptionOf[other])
  BY <1>1, ValueRead
<1>3. ~ValueOf(next, ConfigFile)
  BY <1>1, <1>2 DEF OptionOf
<1>4. /\ ValueOf(next, WordSize) <=> flag = "word_size"
      /\ ValueOf(next, RamSize) <=> flag = "ram_size"
      /\ ValueOf(next, LogFile) <=> flag = "log_file"
  BY <1>2 DEF OptionOf, Flags
<1>5. ~IsOption(next, ExtendedIo)
  BY <1>2
<1>6. ArgumentGives(next, key) <=> key = flag /\ flag # "log_file"
  BY <1>3, <1>4, <1>5 DEF ArgumentGives
<1>7. Given(next, key) = Numerals[Arg]
  BY <1>3, <1>5 DEF Given, Arg
<1>8. OpensLog(next) <=> flag = "log_file"
  BY <1>3, <1>4 DEF OpensLog
<1> QED
  BY <1>6, <1>7, <1>8

LEMMA ConfigFileMeant ==
    ASSUME Base, MInv, ParseArg, ConfigFileValue
    PROVE  MInv'
<1>1. /\ phase = "parse_arg" /\ run' = run /\ next \in Nat /\ next > 0 /\ next' - 1 = next
      /\ next - 1 \in Nat /\ (next - 1) + 1 = next /\ run \in Invocations
  BY BeforeArgument
<1>2. CASE phase' = "RET_UNOPEN_FILE"
  <2>1. rom' = rom
    BY DEF ConfigFileValue
  <2> QED
    BY <1>1, <1>2, <2>1, Ending, Phases
<1>3. CASE Readable(Arg) /\ lines' = TextOf(Arg) /\ phase' = "applyConfig"
  <2>1. UNCHANGED <<config, log, ram, rom>> /\ "config_file" \in reading \cap Flags
    BY DEF ConfigFileValue, Flags
  <2>2. IsValue[next] /\ next \notin Programs
    BY <2>1, ValueRead
  <2>3. ProgramKnown' /\ Loaded'
    BY <1>3, <2>1, <2>2, ProgramAfterArgument
  <2>4. Awaiting'
    <3>1. IsValue' = IsValue
      BY <1>1, SameRun
    <3> QED
      BY <1>1, <1>3, <2>2, <3>1 DEF Awaiting
  <2>5. lines' = TextAt(next)
    BY <1>3, FileMeant
  <2>6. TextOf(Arg) \in Seq(Seq(STRING)) /\ \A k \in DOMAIN TextOf(Arg) : WordsApart(TextOf(Arg)[k])
    BY <1>1, <1>3, FileTyped
  <2>7. ASSUME NEW p, NEW j, Applying(p, j)'
        PROVE  /\ p = next /\ TextAt(p)' = lines' /\ j = 0
               /\ p \in 1..next /\ lines' \in Seq(Seq(STRING))
    <3>1. p = next' - 1 /\ j = Len(TextAt(p)') - Len(lines')
      BY <2>7 DEF Applying
    <3>2. p = next
      BY <1>1, <3>1, Zenon
    <3>3. p \in Nat /\ p \in 1..next
      BY <1>1, <3>2, Itself
    <3>4. TextAt(p)' = lines'
      BY <2>1, <2>5, <3>2, <3>3, SameArguments
    <3>5. lines' \in Seq(Seq(STRING))
      BY <1>3, <2>6
    <3>6. j = Len(lines') - Len(lines') /\ Len(lines') \in Nat
      BY <3>1, <3>4, <3>5, LenIs
    <3>7. j = 0
      BY <3>6
    <3> QED
      BY <3>2, <3>3, <3>4, <3>5, <3>7
  <2>8. LinesLeft'
    <3> SUFFICES ASSUME NEW p, NEW j, Applying(p, j)'
                 PROVE  /\ Emptied(p)' \/ argv'[p] \in DOMAIN text'
                        /\ TextAt(p)' \in Seq(Seq(STRING)) /\ lines' \in Seq(Seq(STRING))
                        /\ \A k \in DOMAIN TextAt(p)' : WordsApart(TextAt(p)'[k])
                        /\ j \in Nat
                        /\ \A k \in 1..Len(lines') : lines'[k] = TextAt(p)'[j + k]
      BY DEF LinesLeft, WordsApart
    <3>0. Emptied(p)' \/ argv'[p] \in DOMAIN text'
      <4>1. p = next /\ p \in 1..next
        BY <2>7
      <4>2. Emptied(p)' <=> Emptied(p)
        BY <2>1, <4>1, SameArguments
      <4>3. Emptied(next) \/ argv[next] \in DOMAIN text
        BY <1>3, FileMeant
      <4> QED
        BY <1>1, <4>1, <4>2, <4>3, SameRun
    <3>1. TextAt(p)' = lines' /\ j = 0 /\ lines' \in Seq(Seq(STRING))
      BY <2>7
    <3>2. \A k \in DOMAIN lines' : WordsApart(lines'[k])
      BY <1>3, <2>6
    <3>3. \A k \in 1..Len(lines') : j + k = k
      BY <3>1
    <3> QED
      BY <3>0, <3>1, <3>2, <3>3
  <2>9. LogKnown'
    <3> SUFFICES ASSUME NEW p, NEW j, Applying(p, j)'
                 PROVE  log' # "" <=> \/ \E q \in 1..(p - 1) : OpensLog(q)'
                                      \/ \E k \in 1..j : Gives(TextAt(p)[k], "log")'
      BY <1>3 DEF LogKnown, Opened
    <3>1. p = next /\ j = 0
      BY <2>7
    <3>2. 1..0 = {}
      OBVIOUS
    <3>3. ~ \E k \in 1..j : Gives(TextAt(p)[k], "log")'
      BY <3>1, <3>2
    <3>4. log # "" <=> \E q \in 1..(next - 1) : OpensLog(q)
      BY <1>1 DEF MInv, LogKnown, Opened
    <3>5. log' # "" <=> \E q \in 1..(p - 1) : OpensLog(q)'
      BY <1>1, <2>1, <3>1, <3>4, SameRun
    <3> QED
      BY <3>3, <3>5
  <2>10. ConfigKnown'
    <3> SUFFICES ASSUME NEW p, NEW j, Applying(p, j)', NEW key \in Keys
                 PROVE  Has(config', key, AfterLines(key, p, j)')
      BY <1>3 DEF ConfigKnown, Keys, Has, Addressing, Settings, IntFreq
    <3>1. p = next /\ j = 0 /\ p \in 1..next
      BY <2>7
    <3>2. AfterLines(key, p, j)' = AfterLines(key, p, j)
      BY <2>1, <3>1, SameArguments
    <3>3. AfterLines(key, p, j)' = After(key, p - 1)
      BY <3>1, <3>2, NoLineYet
    <3>4. Has(config, key, After(key, next - 1))
      BY <1>1 DEF MInv, ConfigKnown
    <3> QED
      BY <2>1, <3>1, <3>3, <3>4
  <2>11. IgnoreKnown'
    <3>1. ignore_first_line <=> \E p \in 1..(next - 1) : IsOption(p, IgnoreFirstLine)
      BY <1>1 DEF MInv, IgnoreKnown, Live
    <3>2. ~IsOption(next, IgnoreFirstLine)
      BY <2>2 DEF IsOption
    <3>3. ignore_first_line <=> \E p \in 1..(next' - 1) : IsOption(p, IgnoreFirstLine)
      BY <3>1, <3>2, UpToArgument, Zenon
    <3>4. ignore_first_line <=> \E p \in 1..(next' - 1) : IsOption(p, IgnoreFirstLine)'
      BY <1>1, <3>3, SameRun, Zenon
    <3>5. ignore_first_line' = ignore_first_line
      BY <2>1 DEF ParseArg, ReadValue
    <3> QED
      BY <3>4, <3>5 DEF IgnoreKnown
  <2> QED
    BY <2>3, <2>4, <2>8, <2>9, <2>10, <2>11 DEF MInv
<1> QED
  BY <1>2, <1>3 DEF ConfigFileValue
(* What a change of a field gives, and leaves. *)
LEMMA SetWordSizeHas ==
    ASSUME NEW c, DOMAIN c = Fields, NEW key, NEW value
    PROVE  Has(SET_WORD_SIZE(c), key, value) <=> Has(c, key, value)
<1>1. \A k \in Settings \cup {"extended_io", "enable", "freq"} : SET_WORD_SIZE(c)[k] = c[k]
  BY AllFields, Strings DEF SET_WORD_SIZE
<1>2. /\ SET_WORD_SIZE(c).extended_io = c.extended_io
      /\ SET_WORD_SIZE(c).freq = c.freq /\ SET_WORD_SIZE(c).enable = c.enable
  BY <1>1
<1> QED
  BY <1>1, <1>2 DEF Has

LEMMA SettingHas ==
    ASSUME NEW c, DOMAIN c = Fields, NEW k \in Settings, NEW new
    PROVE  /\ Has([c EXCEPT ![k] = new], k, new)
           /\ \A key, value : key # k /\ Has(c, key, value)
                                => Has([c EXCEPT ![k] = new], key, value)
<1> DEFINE d == [c EXCEPT ![k] = new]
<1>1. d[k] = new /\ \A f \in Fields \ {k} : d[f] = c[f]
  BY AllFields
<1>2. d.extended_io = c.extended_io /\ d.freq = c.freq /\ d.enable = c.enable
  BY <1>1, AllFields, Strings
<1>3. \A key \in Settings \ {k} : d[key] = c[key]
  BY <1>1, AllFields
<1> HIDE DEF d
<1>4. Has(d, k, new)
  BY <1>1, Strings DEF Has
<1>5. ASSUME NEW key, NEW value, key # k, Has(c, key, value)
      PROVE  Has(d, key, value)
  BY <1>2, <1>3, <1>5 DEF Has
<1> QED
  BY <1>4, <1>5 DEF d

LEMMA ExtendedHas ==
    ASSUME NEW c, DOMAIN c = Fields, NEW new, NEW on, on = (new # 0)
    PROVE  /\ Has([c EXCEPT !.extended_io = on], "extended_io", new)
           /\ \A key, value : key # "extended_io" /\ Has(c, key, value)
                                => Has([c EXCEPT !.extended_io = on], key, value)
<1> DEFINE d == [c EXCEPT !.extended_io = on]
<1>1. d.extended_io = on /\ d.freq = c.freq /\ d.enable = c.enable
  BY AllFields
<1>2. \A key \in Settings : d[key] = c[key]
  BY AllFields, Strings
<1> HIDE DEF d
<1>3. Has(d, "extended_io", new)
  BY <1>1, Strings DEF Has
<1>4. ASSUME NEW key, NEW value, key # "extended_io", Has(c, key, value)
      PROVE  Has(d, key, value)
  BY <1>1, <1>2, <1>4 DEF Has
<1> QED
  BY <1>3, <1>4 DEF d

LEMMA FreqHas ==
    ASSUME NEW c, DOMAIN c = Fields, DOMAIN c.freq = 0..3, DOMAIN c.enable = 0..3,
           NEW k \in DOMAIN IntFreq, NEW new, new # 0
    PROVE  LET d == [c EXCEPT !.enable[IntFreq[k]] = TRUE, !.freq[IntFreq[k]] = ToInt(new)]
           IN  /\ Has(d, k, new)
               /\ \A key, value : key # k /\ Has(c, key, value) => Has(d, key, value)
<1> DEFINE d == [c EXCEPT !.enable[IntFreq[k]] = TRUE, !.freq[IntFreq[k]] = ToInt(new)]
<1>1. d.extended_io = c.extended_io /\ \A key \in Settings : d[key] = c[key]
  BY AllFields, Strings
<1>2. /\ d.freq = [c.freq EXCEPT ![IntFreq[k]] = ToInt(new)]
      /\ d.enable = [c.enable EXCEPT ![IntFreq[k]] = TRUE]
  BY AllFields
<1>3. IntFreq[k] \in DOMAIN c.freq /\ IntFreq[k] \in DOMAIN c.enable
  BY Strings
<1>4. d.freq[IntFreq[k]] = ToInt(new) /\ d.enable[IntFreq[k]] = TRUE
  BY <1>2, <1>3
<1>5. ASSUME NEW key \in DOMAIN IntFreq, key # k
      PROVE  /\ d.freq[IntFreq[key]] = c.freq[IntFreq[key]]
             /\ d.enable[IntFreq[key]] = c.enable[IntFreq[key]]
  <2>1. IntFreq[key] # IntFreq[k]
    BY <1>5 DEF IntFreq
  <2>2. IntFreq[key] \in DOMAIN c.freq /\ IntFreq[key] \in DOMAIN c.enable
    BY Strings
  <2> QED
    BY <1>2, <2>1, <2>2
<1> HIDE DEF d
<1>6. Has(d, k, new)
  <2>1. d.enable[IntFreq[k]] = (new # 0)
    BY <1>4
  <2> QED
    BY <1>4, <2>1, Strings DEF Has
<1>7. ASSUME NEW key, NEW value, key # k, Has(c, key, value)
      PROVE  Has(d, key, value)
  BY <1>1, <1>5, <1>7 DEF Has
<1> QED
  BY <1>6, <1>7 DEF d

LEMMA WordSizeMeant ==
    ASSUME Base, MInv, ParseArg, WordSizeValue, ignore_first_line' = ignore_first_line
    PROVE  MInv'
<1>1. phase = "parse_arg" /\ run' = run
  BY BeforeArgument
<1>2. CASE Exit("RET_CONFIG")
  BY <1>1, <1>2, Ending, Phases DEF Exit
<1>3. CASE /\ config' = SET_WORD_SIZE([config EXCEPT !.word_size = Numerals[Arg]])
           /\ UNCHANGED <<log, ram, rom, phase>>
  <2>1. "word_size" \in reading /\ reading' = {}
    BY ValueRead DEF WordSizeValue, Flags
  <2>2. IsValue[next] /\ next \notin Programs /\ \A options : ~IsOption(next, options)
    BY <2>1, ValueRead DEF Flags
  <2>3. /\ \A key : ArgumentGives(next, key) <=> key = "word_size"
        /\ \A key : Given(next, key) = Numerals[Arg]
        /\ ~OpensLog(next)
    BY <2>1, ValueGives
  <2>4. DOMAIN config = Fields
    BY DEF Base, TypeInv, ConfigTyped
  <2>5. /\ Has(config', "word_size", Numerals[Arg])
        /\ \A key, value : key # "word_size" /\ Has(config, key, value) => Has(config', key, value)
    <3> DEFINE c == [config EXCEPT !.word_size = Numerals[Arg]]
    <3>1. DOMAIN c = Fields
      BY <2>4
    <3>2. "word_size" \in Settings
      BY Strings
    <3>3. /\ Has(c, "word_size", Numerals[Arg])
          /\ \A key, value : key # "word_size" /\ Has(config, key, value) => Has(c, key, value)
      BY <2>4, <3>2, SettingHas
    <3>4. config' = SET_WORD_SIZE(c)
      BY <1>3
    <3> HIDE DEF c
    <3> QED
      BY <3>1, <3>3, <3>4, SetWordSizeHas
  <2>6. ConfigKnown'
    <3>1. phase' # "applyConfig" /\ log' = log
      BY <1>1, <1>3
    <3> QED
      BY <2>3, <2>5, <3>1, ConfigAfterArgument
  <2>7. ProgramKnown' /\ Loaded'
    BY <1>1, <1>3, <2>2, ProgramAfterArgument
  <2> QED
    BY <1>1, <1>3, <2>1, <2>2, <2>3, <2>6, <2>7, AfterArgument
<1> QED
  BY <1>2, <1>3 DEF WordSizeValue

LEMMA RamSizeMeant ==
    ASSUME Base, MInv, ParseArg, RamSizeValue, ignore_first_line' = ignore_first_line
    PROVE  MInv'
<1>1. phase = "parse_arg" /\ run' = run
  BY BeforeArgument
<1>2. CASE Exit("RET_CONFIG")
  BY <1>1, <1>2, Ending, Phases DEF Exit
<1>3. CASE /\ config' = [config EXCEPT !.ram_size = Numerals[Arg]]
           /\ UNCHANGED <<log, ram, rom, phase>>
  <2>1. "ram_size" \in reading /\ reading' = {}
    BY ValueRead DEF RamSizeValue, Flags
  <2>2. IsValue[next] /\ next \notin Programs /\ \A options : ~IsOption(next, options)
    BY <2>1, ValueRead DEF Flags
  <2>3. /\ \A key : ArgumentGives(next, key) <=> key = "ram_size"
        /\ \A key : Given(next, key) = Numerals[Arg]
        /\ ~OpensLog(next)
    BY <2>1, ValueGives
  <2>4. DOMAIN config = Fields /\ "ram_size" \in Settings
    BY Strings DEF Base, TypeInv, ConfigTyped
  <2>5. /\ Has(config', "ram_size", Numerals[Arg])
        /\ \A key, value : key # "ram_size" /\ Has(config, key, value) => Has(config', key, value)
    BY <1>3, <2>4, SettingHas
  <2>6. ConfigKnown'
    <3>1. phase' # "applyConfig" /\ log' = log
      BY <1>1, <1>3
    <3> QED
      BY <2>3, <2>5, <3>1, ConfigAfterArgument
  <2>7. ProgramKnown' /\ Loaded'
    BY <1>1, <1>3, <2>2, ProgramAfterArgument
  <2> QED
    BY <1>1, <1>3, <2>1, <2>2, <2>3, <2>6, <2>7, AfterArgument
<1> QED
  BY <1>2, <1>3 DEF RamSizeValue

LEMMA LogFileMeant ==
    ASSUME Base, MInv, ParseArg, LogFileValue, ignore_first_line' = ignore_first_line
    PROVE  MInv'
<1>1. phase = "parse_arg" /\ run' = run
  BY BeforeArgument
<1>2. CASE Exit("RET_CONFIG")
  BY <1>1, <1>2, Ending, Phases DEF Exit
<1>3. CASE /\ log = "" /\ Arg \in Writable /\ log' = Arg
           /\ UNCHANGED <<config, ram, rom, phase>>
  <2>1. "log_file" \in reading /\ reading' = {} /\ log' # ""
    BY <1>3, BootAssumption DEF LogFileValue
  <2>2. IsValue[next] /\ next \notin Programs /\ \A options : ~IsOption(next, options)
    BY <2>1, ValueRead DEF Flags
  <2>3. /\ \A key : ~ArgumentGives(next, key)
        /\ OpensLog(next)
    BY <2>1, ValueGives
  <2>4. ConfigKnown'
    <3>1. phase' # "applyConfig" /\ log = "" /\ config' = config
      BY <1>1, <1>3
    <3>2. \A key, value : Has(config, key, value) => Has(config', key, value)
      BY <3>1
    <3> QED
      BY <2>3, <3>1, <3>2, ConfigAfterArgument
  <2>5. ProgramKnown' /\ Loaded'
    BY <1>1, <1>3, <2>2, ProgramAfterArgument
  <2> QED
    BY <1>1, <1>3, <2>1, <2>2, <2>3, <2>4, <2>5, AfterArgument
<1> QED
  BY <1>2, <1>3 DEF LogFileValue, OpenLog
(* What an argument that is no value gives. *)
LEMMA OptionGives ==
    ASSUME Base, MInv, ParseArg, reading = {}
    PROVE  /\ ~IsValue[next]
           /\ \A options : IsOption(next, options) <=> argv[next] \in options
           /\ \A key : ArgumentGives(next, key) <=> key = "extended_io" /\ Arg \in ExtendedIo
           /\ \A key : Arg \in ExtendedIo => Given(next, key) = 1
           /\ ~OpensLog(next)
           /\ next \in Programs <=> Arg \notin Options
<1>1. ~IsValue[next] /\ next \in DOMAIN argv
  BY BeforeArgument
<1>2. /\ \A options : IsOption(next, options) <=> argv[next] \in options
      /\ \A options : ~ValueOf(next, options)
  BY <1>1 DEF IsOption, ValueOf
<1>3. Arg = argv[next]
  BY DEF Arg
<1>4. \A key : ArgumentGives(next, key) <=> key = "extended_io" /\ Arg \in ExtendedIo
  BY <1>2, <1>3 DEF ArgumentGives
<1>5. \A key : Arg \in ExtendedIo => Given(next, key) = 1
  BY <1>2, <1>3 DEF Given
<1>6. ~OpensLog(next)
  BY <1>2 DEF OpensLog
<1>7. next \in Programs <=> Arg \notin Options
  BY <1>1, <1>3 DEF Programs
<1> QED
  BY <1>1, <1>2, <1>4, <1>5, <1>6, <1>7

LEMMA OptionMeant ==
    ASSUME Base, MInv, ParseArg, reading = {}, ReadOption
    PROVE  MInv'
<1>1. phase = "parse_arg" /\ run' = run /\ Arg = argv[next]
  BY BeforeArgument DEF Arg
<1>2. UNCHANGED <<rom, log, ram>>
  BY DEF ReadOption
<1>3. CASE phase' = "exit_0"
  BY <1>1, <1>2, <1>3, Ending, Phases
<1>4. CASE phase' # "exit_0"
  <2>1. phase' = "parse_arg" /\ Arg \in Options
    BY <1>1, <1>4 DEF ReadOption, Raise, Options
  <2>2. next \notin Programs /\ ~IsValue[next] /\ ~OpensLog(next)
    BY <2>1, OptionGives
  <2>3. ProgramKnown' /\ Loaded'
    BY <1>2, <2>1, <2>2, ProgramAfterArgument
  <2>4. ConfigKnown'
    <3>1. phase' # "applyConfig" /\ log' = log
      BY <1>2, <2>1
    <3>2. CASE Arg \notin ExtendedIo
      <4>1. config' = config
        BY <3>2 DEF ReadOption, Raise
      <4>2. /\ \A key : ~ArgumentGives(next, key)
            /\ \A key, value : Has(config, key, value) => Has(config', key, value)
        BY <3>2, <4>1, OptionGives
      <4> QED
        BY <3>1, <4>2, ConfigAfterArgument
    <3>3. CASE Arg \in ExtendedIo
      <4>1. config' = [config EXCEPT !.extended_io = TRUE]
        BY <3>3 DEF ReadOption, Raise, ConfigFile, IgnoreFirstLine, WordSize, RamSize,
              ExtendedIo, Help, LogFile
      <4>2. DOMAIN config = Fields /\ TRUE = (1 # 0)
        BY DEF Base, TypeInv, ConfigTyped
      <4>3. /\ Has(config', "extended_io", 1)
            /\ \A key, value : key # "extended_io" /\ Has(config, key, value)
                                 => Has(config', key, value)
        BY <4>1, <4>2, ExtendedHas
      <4>4. /\ \A key : ArgumentGives(next, key) <=> key = "extended_io"
            /\ \A key : Given(next, key) = 1
        BY <3>3, OptionGives
      <4> QED
        BY <3>1, <4>3, <4>4, ConfigAfterArgument
    <3> QED
      BY <3>2, <3>3
  <2>5. reading' # {} <=> argv[next] \in Valued
    <3>1. CASE Arg \in Valued
      BY <1>1, <1>4, <3>1 DEF ReadOption, Raise, Valued, ConfigFile, IgnoreFirstLine, WordSize,
            RamSize, ExtendedIo, Help, LogFile
    <3>2. CASE Arg \notin Valued
      BY <1>1, <1>4, <3>2 DEF ReadOption, Valued
    <3> QED
      BY <1>1, <3>1, <3>2
  <2>6. ignore_first_line' <=> ignore_first_line \/ IsOption(next, IgnoreFirstLine)
    <3>1. IsOption(next, IgnoreFirstLine) <=> Arg \in IgnoreFirstLine
      BY <1>1, OptionGives
    <3>2. CASE Arg \in IgnoreFirstLine
      BY <1>4, <3>1, <3>2 DEF ReadOption, Raise, ConfigFile, IgnoreFirstLine, WordSize,
            RamSize, ExtendedIo, Help, LogFile
    <3>3. CASE Arg \notin IgnoreFirstLine
      BY <1>4, <3>1, <3>3 DEF ReadOption, Raise
    <3> QED
      BY <3>2, <3>3
  <2> QED
    BY <1>1, <1>2, <2>1, <2>2, <2>3, <2>4, <2>5, <2>6, AfterArgument
<1> QED
  BY <1>3, <1>4

LEMMA UnusedMeant ==
    ASSUME Base, MInv, ParseArg, reading = {}, Unused
    PROVE  MInv'
<1>1. phase = "parse_arg" /\ run' = run /\ Arg = argv[next]
  BY BeforeArgument DEF Arg
<1>2. UNCHANGED <<rom, config, log, ram, reading, ignore_first_line, phase>> /\ rom # 0
  BY DEF Unused
<1>3. Arg \notin ExtendedIo /\ argv[next] \notin Valued /\ argv[next] \notin IgnoreFirstLine
  BY <1>1 DEF Unused, Options, Valued
<1>4. /\ \A key : ~ArgumentGives(next, key)
      /\ ~OpensLog(next) /\ ~IsOption(next, IgnoreFirstLine)
  BY <1>3, OptionGives
<1>5. ProgramKnown' /\ Loaded'
  BY <1>1, <1>2, ProgramAfterArgument
<1>6. ConfigKnown'
  <2>1. phase' # "applyConfig"
    BY <1>1, <1>2
  <2>2. \A key, value : Has(config, key, value) => Has(config', key, value)
    BY <1>2
  <2> QED
    BY <1>2, <1>4, <2>1, <2>2, ConfigAfterArgument
<1> QED
  BY <1>1, <1>2, <1>3, <1>4, <1>5, <1>6, AfterArgument
(* What follows the first new line, counted from the end of the file.      *)
LEMMA AfterNewline ==
    ASSUME NEW file \in Seq(Byte), NEW first, first = {k \in DOMAIN file : file[k] = NEWLINE},
           NEW kept, kept = {k \in DOMAIN file : \E j \in 1..(k - 1) : file[j] = NEWLINE}
    PROVE  (IF first = {} THEN <<>> ELSE SubSeq(file, Min(first) + 1, Len(file)))
             = [k \in 1..Cardinality(kept) |-> file[Len(file) - Cardinality(kept) + k]]
<1>1. Len(file) \in Nat /\ DOMAIN file = 1..Len(file)
  BY LenIs
<1>2. PICK n \in Nat : n = Len(file) /\ DOMAIN file = 1..n
  BY <1>1
<1>3. CASE first = {}
  <2>1. kept = {}
    BY <1>2, <1>3
  <2>2. Cardinality(kept) = 0
    BY <2>1, FS_EmptySet
  <2>3. [k \in 1..Cardinality(kept) |-> file[Len(file) - Cardinality(kept) + k]] = <<>>
    <3>1. 1..0 = {}
      OBVIOUS
    <3>2. 1..Cardinality(kept) = {}
      BY <2>2, <3>1, Zenon
    <3> QED
      BY <3>2
  <2> QED
    BY <1>3, <2>3
<1>4. CASE first # {}
  <2>1. PICK m \in first : m = Min(first) /\ \A k \in first : m <= k
    <3>1. first \subseteq Nat
      BY <1>2
    <3> QED
      BY <1>4, <3>1, MinIs
  <2>2. m \in 1..n /\ file[m] = NEWLINE
    BY <1>2, <2>1
  <2>3. kept = (m + 1)..n
    <3>1. ASSUME NEW k \in kept
          PROVE  k \in (m + 1)..n
      <4>1. k \in 1..n /\ \E j \in 1..(k - 1) : file[j] = NEWLINE
        BY <1>2, <3>1
      <4>2. PICK j \in 1..(k - 1) : file[j] = NEWLINE
        BY <4>1
      <4>3. j \in 1..n
        BY <1>2, <4>1, <4>2
      <4>4. m <= j
        BY <1>2, <2>1, <4>2, <4>3
      <4> QED
        BY <2>2, <4>1, <4>2, <4>4
    <3>2. ASSUME NEW k \in (m + 1)..n
          PROVE  k \in kept
      <4>1. k \in 1..n /\ m \in 1..(k - 1)
        BY <1>2, <2>2, <3>2
      <4> QED
        BY <1>2, <2>2, <4>1
    <3> QED
      BY <3>1, <3>2
  <2>4. Cardinality(kept) = n - m
    <3>1. m + 1 \in Int /\ n \in Int
      BY <1>2, <2>2
    <3>2. Cardinality((m + 1)..n) = IF m + 1 > n THEN 0 ELSE n - (m + 1) + 1
      BY <3>1, FS_Interval
    <3>3. (IF m + 1 > n THEN 0 ELSE n - (m + 1) + 1) = n - m
      BY <1>2, <2>2
    <3> QED
      BY <2>3, <3>2, <3>3
  <2>5. SubSeq(file, m + 1, n) = [k \in 1..(n - m) |-> file[m + k]]
    <3>1. m + 1 \in 1..(n + 1) /\ n \in (m + 1 - 1)..Len(file)
      BY <1>2, <2>2
    <3>2. /\ SubSeq(file, m + 1, n) \in Seq(Byte)
          /\ Len(SubSeq(file, m + 1, n)) = n - m
          /\ \A k \in 1..(n - m) : SubSeq(file, m + 1, n)[k] = file[m + k]
      BY <1>2, <2>2, <3>1
    <3>3. ASSUME NEW s \in Seq(Byte), Len(s) = n - m, \A k \in 1..(n - m) : s[k] = file[m + k]
          PROVE  s = [k \in 1..(n - m) |-> file[m + k]]
      <4>1. s = [k \in 1..Len(s) |-> s[k]]
        OBVIOUS
      <4>2. s = [k \in 1..(n - m) |-> s[k]]
        BY <3>3, <4>1, Zenon
      <4> QED
        BY <3>3, <4>2, Zenon
    <3> QED
      BY <3>2, <3>3, Zenon
  <2>6. n - (n - m) = m
    BY <1>2, <2>2
  <2> QED
    BY <1>2, <1>4, <2>1, <2>4, <2>5, <2>6
<1> QED
  BY <1>3, <1>4

LEMMA BodyMeant ==
    ASSUME Base, MInv, ParseArg, Readable(Arg)
    PROVE  Body(Arg) = BytesGiven(next)
<1>1. phase = "parse_arg" /\ run \in Invocations
  BY BeforeArgument
<1>2. BytesOf(Arg) = BytesAt(next) /\ BytesOf(Arg) \in Seq(Byte)
  BY <1>1, FileMeant, FileTyped
<1>3. ignore_first_line <=> \E q \in 1..(next - 1) : IsOption(q, IgnoreFirstLine)
  BY <1>1 DEF MInv, IgnoreKnown, Live
<1>4. CASE ~ignore_first_line
  BY <1>2, <1>3, <1>4 DEF Body, BytesGiven
<1>5. CASE ignore_first_line
  <2> DEFINE file == BytesOf(Arg)
             first == {k \in DOMAIN file : file[k] = NEWLINE}
             kept == {k \in DOMAIN file : \E j \in 1..(k - 1) : file[j] = NEWLINE}
  <2>1. Body(Arg) = IF first = {} THEN <<>> ELSE SubSeq(file, Min(first) + 1, Len(file))
    BY <1>5 DEF Body
  <2>2. BytesGiven(next)
          = [k \in 1..Cardinality(kept) |-> file[Len(file) - Cardinality(kept) + k]]
    BY <1>2, <1>3, <1>5, Zenon DEF BytesGiven
  <2>3. (IF first = {} THEN <<>> ELSE SubSeq(file, Min(first) + 1, Len(file)))
          = [k \in 1..Cardinality(kept) |-> file[Len(file) - Cardinality(kept) + k]]
    BY <1>2, AfterNewline
  <2> QED
    BY <2>1, <2>2, <2>3
<1> QED
  BY <1>4, <1>5

(* What is loaded: the image of the program that is given. *)
LEMMA ImageMeant ==
    ASSUME Base, MInv, ParseArg, Readable(Arg), Fits(Body(Arg)), ram' = Image(Body(Arg)),
           log' = log, NEW p, p = next
    PROVE  /\ BytesGiven(p)' \in Seq(Byte) /\ After("ram_size", p - 1)' \in Nat
           /\ DOMAIN ram' = 0..(After("ram_size", p - 1)' - 1)
           /\ Len(BytesGiven(p))' < After("ram_size", p - 1)'
           /\ \A a \in DOMAIN ram' : CellGiven(p, a)'
<1> DEFINE body == Body(Arg)
<1>1. /\ phase = "parse_arg" /\ next \in Nat /\ next > 0 /\ next - 1 \in Nat
      /\ run \in Invocations
  BY BeforeArgument
<1>2. p \in Nat /\ p \in 1..next
  BY <1>1, Itself
<1>3. p - 1 \in 0..next
  BY <1>1
<1>4. BytesGiven(p)' = body
  BY <1>2, BodyMeant, SameArguments
<1>5. \A key : After(key, p - 1)' = After(key, next - 1)
  BY <1>3, SameArguments
<1>6. /\ config.ram_size = After("ram_size", next - 1)
      /\ config.tx_cmd = After("tx_cmd", next - 1)
      /\ config.rx_cmd = After("rx_cmd", next - 1)
  <2>1. {"ram_size", "tx_cmd", "rx_cmd"} \subseteq Keys \cap Settings
    BY DEF Keys, Settings, Addressing
  <2>2. \A key \in Keys : Has(config, key, After(key, next - 1))
    BY <1>1 DEF MInv, ConfigKnown
  <2> QED
    BY <2>1, <2>2 DEF Has
<1>7. DOMAIN ram' = 0..(config.ram_size - 1)
  BY DEF Image, Addresses
<1>8. Len(body) < config.ram_size
  BY DEF Fits
<1>10. body \in Seq(Byte) /\ config.ram_size \in Nat
  BY <1>1, BodyTyped, Strings DEF Base, TypeInv, ConfigTyped
<1>9. ASSUME NEW a \in DOMAIN ram'
      PROVE  CellGiven(p, a)'
  <2>1. ram'[a] = IF a < Len(body) /\ body[a + 1] # 0 THEN body[a + 1]
                  ELSE IF a \in Commands THEN 1 ELSE 0
    BY <1>7, <1>9 DEF Image, Addresses
  <2>2. CASE ram'[a] = CellOf(body, a)
    BY <1>4, <2>2 DEF CellGiven, CellOf
  <2>3. CASE ram'[a] # CellOf(body, a)
    <3>1. a \in Commands /\ CellOf(body, a) = 0 /\ ram'[a] = 1
      BY <2>1, <2>3 DEF CellOf
    <3>2. a \in {After("tx_cmd", p - 1)', After("rx_cmd", p - 1)'}
      BY <1>5, <1>6, <3>1 DEF Commands
    <3> QED
      BY <1>4, <3>1, <3>2 DEF CellGiven, CellOf
  <2> QED
    BY <2>2, <2>3
<1> QED
  BY <1>4, <1>5, <1>6, <1>7, <1>8, <1>9, <1>10

LEMMA ProgramMeant ==
    ASSUME Base, MInv, ParseArg, reading = {}, ReadProgram
    PROVE  MInv'
<1>1. /\ phase = "parse_arg" /\ run' = run /\ Arg = argv[next] /\ rom = 0
      /\ next \in Nat /\ next > 0 /\ run \in Invocations
  BY BeforeArgument DEF Arg, ReadProgram
<1>2. UNCHANGED <<config, log, reading, ignore_first_line>>
  BY DEF ReadProgram, LoadProgram
<1>3. CASE phase' = "RET_NO_VM" /\ UNCHANGED rom
  BY <1>1, <1>3, Ending, Phases
<1>4. CASE /\ Readable(Arg) /\ Fits(Body(Arg)) /\ ram' = Image(Body(Arg)) /\ rom' = next
           /\ phase' \in {phase, "killed"}
  <2>1. next \in Programs /\ \A p \in Programs : next <= p
    <3>1. next \in Programs
      BY OptionGives DEF ReadProgram
    <3>2. \A p \in 1..(next - 1) : p \notin Programs
      BY <1>1 DEF MInv, ProgramKnown, Live
    <3>3. ASSUME NEW p \in Programs
          PROVE  next <= p
      <4>1. p \in 1..Len(argv) /\ Len(argv) \in Nat
        BY <1>1, ArgvTyped DEF Programs
      <4>2. p \notin 1..(next - 1)
        BY <3>2
      <4> QED
        BY <1>1, <4>1, <4>2
    <3> QED
      BY <3>1, <3>3
  <2>2. ProgramKnown'
    <3>1. Programs' = Programs
      BY <1>1, SameRun
    <3>2. rom' # 0
      BY <1>1, <1>4
    <3>3. phase' \notin {"RET_INVALID_ARGS", "reflet_run"}
      BY <1>1, <1>4
    <3> QED
      BY <1>4, <2>1, <3>1, <3>2, <3>3 DEF ProgramKnown
  <2>3. CASE phase' = "killed"
    BY <2>2, <2>3 DEF MInv, Awaiting, LinesLeft, LogKnown, ConfigKnown, IgnoreKnown,
                      Loaded, Live, Applying
  <2>4. CASE phase' = "parse_arg"
    <3>1. Loaded'
      <4> SUFFICES ASSUME NEW p, p = next
                   PROVE  /\ BytesGiven(p)' \in Seq(Byte) /\ After("ram_size", p - 1)' \in Nat
                          /\ DOMAIN ram' = 0..(After("ram_size", p - 1)' - 1)
                          /\ Len(BytesGiven(p))' < After("ram_size", p - 1)'
                          /\ \A a \in DOMAIN ram' : CellGiven(p, a)'
        BY <1>4 DEF Loaded
      <4> QED
        BY <1>2, <1>4, ImageMeant
    <3>2. Arg \notin ExtendedIo /\ argv[next] \notin Valued /\ argv[next] \notin IgnoreFirstLine
      BY <1>1 DEF ReadProgram, Options, Valued
    <3>3. /\ \A key : ~ArgumentGives(next, key)
          /\ ~OpensLog(next) /\ ~IsOption(next, IgnoreFirstLine)
      BY <3>2, OptionGives
    <3>4. ConfigKnown'
      <4>1. \A key, value : Has(config, key, value) => Has(config', key, value)
        BY <1>2
      <4> QED
        BY <1>2, <2>4, <3>3, <4>1, ConfigAfterArgument
    <3> QED
      BY <1>2, <2>2, <2>4, <3>1, <3>2, <3>3, <3>4, AfterArgument
  <2> QED
    BY <1>1, <1>4, <2>3, <2>4
<1> QED
  BY <1>3, <1>4 DEF ReadProgram, LoadProgram
-----------------------------------------------------------------------------
(* A line of a configuration file is read. *)

LEMMA ApplyHas ==
    ASSUME NEW c, ConfigTyped(c), NEW key \in Keys, NEW value
    PROVE  LET sets == key \in DOMAIN IntFreq => value # 0
           IN  /\ sets => Has(Apply(c, key, value), key, value)
               /\ \A k, v : Has(c, k, v) /\ (k # key \/ ~sets) => Has(Apply(c, key, value), k, v)
<1>1. DOMAIN c = Fields /\ DOMAIN c.freq = 0..3 /\ DOMAIN c.enable = 0..3
  BY DEF ConfigTyped
<1>2. CASE key \in Settings
  <2>1. Apply(c, key, value) = [c EXCEPT ![key] = value] /\ key \notin DOMAIN IntFreq
    BY <1>2, Strings DEF Apply, Settings
  <2> DEFINE d == [c EXCEPT ![key] = value]
  <2>2. /\ Has(d, key, value)
        /\ \A k, v : k # key /\ Has(c, k, v) => Has(d, k, v)
    BY <1>1, <1>2, SettingHas
  <2> HIDE DEF d
  <2> QED
    BY <2>1, <2>2 DEF d
<1>3. CASE key \in DOMAIN IntFreq /\ value # 0
  <2>1. Apply(c, key, value) = [c EXCEPT !.enable[IntFreq[key]] = TRUE,
                                         !.freq[IntFreq[key]] = ToInt(value)]
    BY <1>3, Strings DEF Apply, Settings
  <2> DEFINE d == [c EXCEPT !.enable[IntFreq[key]] = TRUE, !.freq[IntFreq[key]] = ToInt(value)]
  <2>2. /\ Has(d, key, value)
        /\ \A k, v : k # key /\ Has(c, k, v) => Has(d, k, v)
    BY <1>1, <1>3, FreqHas
  <2> HIDE DEF d
  <2> QED
    BY <1>3, <2>1, <2>2 DEF d
<1>4. CASE key \in DOMAIN IntFreq /\ value = 0
  <2>1. Apply(c, key, value) = c
    BY <1>4, Strings DEF Apply, Settings
  <2> QED
    BY <1>4, <2>1
<1>5. CASE key = "extended_io"
  <2>1. Apply(c, key, value) = [c EXCEPT !.extended_io = (value # 0)]
        /\ key \notin DOMAIN IntFreq
    BY <1>5, Strings DEF Apply, Settings
  <2>2. PICK on \in BOOLEAN : on = (value # 0)
    OBVIOUS
  <2>3. Apply(c, key, value) = [c EXCEPT !.extended_io = on]
    BY <2>1, <2>2
  <2> QED
    BY <1>1, <1>5, <2>1, <2>2, <2>3, ExtendedHas
<1> QED
  BY <1>2, <1>3, <1>4, <1>5 DEF Keys, Settings

LEMMA AtLine ==
    ASSUME Base, MInv, lines # <<>>, NEW p, NEW j, Applying(p, j)
    PROVE  /\ j \in Nat /\ p \in Nat /\ p > 0 /\ next \in Nat /\ p = next - 1 /\ p < next
           /\ Head(lines) = TextAt(p)[j + 1]
           /\ Head(lines) \in Seq(STRING) /\ WordsApart(Head(lines))
           /\ TextAt(p) \in Seq(Seq(STRING)) /\ Tail(lines) \in Seq(Seq(STRING))
           /\ Len(lines) \in Nat /\ Len(Tail(lines)) = Len(lines) - 1
           /\ Len(TextAt(p)) - Len(Tail(lines)) = j + 1
           /\ \A k \in 1..Len(Tail(lines)) : Tail(lines)[k] = TextAt(p)[(j + 1) + k]
<1>1. phase = "applyConfig" /\ p = next - 1 /\ j = Len(TextAt(p)) - Len(lines)
  BY DEF Applying
<1>2. /\ TextAt(p) \in Seq(Seq(STRING)) /\ lines \in Seq(Seq(STRING))
      /\ \A k \in DOMAIN TextAt(p) : WordsApart(TextAt(p)[k])
      /\ j \in Nat
      /\ \A k \in 1..Len(lines) : lines[k] = TextAt(p)[j + k]
  BY DEF MInv, LinesLeft
<1>3. next \in Nat /\ next > 2
  BY <1>1 DEF Base, IInv, Places
<1>4. p \in Nat /\ p > 0 /\ p < next
  <2>1. p = next - 1
    BY <1>1
  <2> QED
    BY <1>3, <2>1
<1>5. PICK t \in Seq(Seq(STRING)) : t = TextAt(p)
  BY <1>2
<1>7. /\ Len(lines) \in Nat /\ Len(lines) > 0
      /\ Head(lines) = lines[1] /\ Head(lines) \in Seq(STRING)
      /\ Tail(lines) \in Seq(Seq(STRING)) /\ Len(Tail(lines)) = Len(lines) - 1
      /\ \A k \in 1..Len(Tail(lines)) : Tail(lines)[k] = lines[k + 1]
  BY <1>2
<1>8. Len(t) \in Nat /\ DOMAIN t = 1..Len(t) /\ j = Len(t) - Len(lines)
  BY <1>1, <1>5, LenIs
<1>9. j + 1 \in DOMAIN t /\ Len(t) - Len(Tail(lines)) = j + 1
  <2>1. j + 1 \in 1..Len(t) /\ Len(t) - (Len(lines) - 1) = j + 1
    BY <1>2, <1>7, <1>8
  <2> QED
    BY <1>7, <1>8, <2>1
<1>10. Head(lines) = t[j + 1]
  <2>1. 1 \in 1..Len(lines)
    BY <1>7
  <2> QED
    BY <1>2, <1>5, <1>7, <2>1
<1>11. WordsApart(Head(lines))
  BY <1>2, <1>5, <1>9, <1>10
<1>12. ASSUME NEW k \in 1..Len(Tail(lines))
       PROVE  Tail(lines)[k] = t[(j + 1) + k]
  <2>1. k + 1 \in 1..Len(lines) /\ j + (k + 1) = (j + 1) + k
    BY <1>2, <1>7
  <2>2. lines[k + 1] = t[j + (k + 1)]
    BY <1>2, <1>5, <2>1
  <2> QED
    BY <1>7, <2>1, <2>2
<1> QED
  BY <1>1, <1>2, <1>3, <1>4, <1>5, <1>7, <1>9, <1>10, <1>11, <1>12
(* What the lines and the arguments mean does not change. *)
LEMMA SameAtLine ==
    ASSUME Base, MInv, phase = "applyConfig", run' = run, log' = log \/ log = ""
    PROVE  /\ \A p \in 1..(next - 1) : TextAt(p)' = TextAt(p) /\ BytesGiven(p)' = BytesGiven(p)
           /\ \A p \in 1..(next - 1) : \A j, key : AfterLines(key, p, j)' = AfterLines(key, p, j)
           /\ \A m \in 0..(next - 1) : \A key : After(key, m)' = After(key, m)
           /\ \A p \in 1..(next - 1) : Emptied(p)' <=> Emptied(p)
<1>1. next \in Nat /\ next > 2
  BY DEF Base, IInv, Places
<1>2. PICK n \in Nat : n = next - 1 /\ n < next /\ n <= next
  BY <1>1, Predecessor
<1>3. \A p \in 1..n : Emptied(p)' <=> Emptied(p)
  BY <1>2, NoneEmptied
<1>4. /\ \A p \in 1..n : TextAt(p)' = TextAt(p)
      /\ \A m \in 0..n : \A key : After(key, m)' = After(key, m)
  BY <1>3, SameMeaning
<1>5. /\ \A p \in 1..n : BytesGiven(p)' = BytesGiven(p)
      /\ \A p \in 1..n : \A j, key : AfterLines(key, p, j)' = AfterLines(key, p, j)
  BY <1>3, SameLines
<1> QED
  BY <1>2, <1>3, <1>4, <1>5, Zenon

(* The RAM stays as it was loaded. *)
LEMMA LoadedAtLine ==
    ASSUME Base, MInv, phase = "applyConfig", UNCHANGED <<run, rom, ram>>,
           log' = log \/ log = "", phase' \in {"applyConfig", "parse_arg"}
    PROVE  Loaded'
<1> SUFFICES ASSUME NEW p, p = rom, p # 0
             PROVE  /\ BytesGiven(p)' \in Seq(Byte) /\ After("ram_size", p - 1)' \in Nat
                    /\ DOMAIN ram = 0..(After("ram_size", p - 1)' - 1)
                    /\ Len(BytesGiven(p))' < After("ram_size", p - 1)'
                    /\ \A a \in DOMAIN ram : CellGiven(p, a)'
  BY DEF Loaded
<1>1. next \in Nat /\ next > 2 /\ rom \in Nat /\ rom < next - 1
  BY DEF Base, IInv, Places
<1>2. /\ BytesGiven(p) \in Seq(Byte) /\ After("ram_size", p - 1) \in Nat
      /\ DOMAIN ram = 0..(After("ram_size", p - 1) - 1)
      /\ Len(BytesGiven(p)) < After("ram_size", p - 1)
      /\ \A a \in DOMAIN ram : CellGiven(p, a)
  BY DEF MInv, Loaded, Live
<1>3. PICK m \in Nat : m = next - 1 /\ rom < m
  BY <1>1, Predecessor
<1>4. p \in 1..m /\ p - 1 \in 0..m
  BY <1>1, <1>3, InRange
<1>5. p \in 1..(next - 1) /\ p - 1 \in 0..(next - 1)
  BY <1>3, <1>4, Zenon
<1>6. BytesGiven(p)' = BytesGiven(p) /\ \A key : After(key, p - 1)' = After(key, p - 1)
  BY <1>5, SameAtLine
<1>7. \A a : CellGiven(p, a)' <=> CellGiven(p, a)
  BY <1>6 DEF CellGiven, CellOf
<1> QED
  BY <1>2, <1>6, <1>7

(* What remains to be seen for each kind of line. *)
LEMMA AfterLine ==
    ASSUME Base, MInv, ApplyLine, phase' = "applyConfig", UNCHANGED <<rom, ram>>,
           log' = log \/ log = "",
           log' # "" <=> log # "" \/ Gives(Head(lines), "log"),
           \A key \in Keys :
              /\ Gives(Head(lines), key) => Has(config', key, Numerals[ValueMeant(Head(lines))])
              /\ ~Gives(Head(lines), key)
                   => \A value : Has(config, key, value) => Has(config', key, value)
    PROVE  MInv'
<1>1. /\ phase = "applyConfig" /\ UNCHANGED <<run, next, reading, ignore_first_line>>
      /\ lines' = Tail(lines) /\ lines # <<>>
  BY DEF ApplyLine
<1>2. IsValue' = IsValue /\ Programs' = Programs
      /\ \A p, options : IsOption(p, options)' <=> IsOption(p, options)
  BY <1>1, SameRun
<1>3. Awaiting'
  BY <1>1, <1>2 DEF MInv, Awaiting
<1>4. ProgramKnown'
  BY <1>1, <1>2 DEF MInv, ProgramKnown, Live
<1>5. IgnoreKnown'
  BY <1>1, <1>2 DEF MInv, IgnoreKnown, Live
<1>6. Loaded'
  BY <1>1, LoadedAtLine
<1>7. ASSUME NEW p, NEW i, Applying(p, i)'
      PROVE  \E j : /\ Applying(p, j) /\ i = j + 1 /\ TextAt(p)' = TextAt(p)
                    /\ p \in 1..(next - 1)
  <2>1. p = next - 1 /\ i = Len(TextAt(p)') - Len(Tail(lines))
    BY <1>1, <1>7 DEF Applying
  <2>2. PICK j : j = Len(TextAt(p)) - Len(lines)
    OBVIOUS
  <2>3. Applying(p, j)
    BY <1>1, <2>1, <2>2 DEF Applying
  <2>4. p \in Nat /\ p > 0 /\ Len(TextAt(p)) - Len(Tail(lines)) = j + 1
    BY <1>1, <2>3, AtLine
  <2>5. p \in 1..p
    BY <2>4, Itself
  <2>6. p \in 1..(next - 1)
    BY <2>1, <2>5, Zenon
  <2>7. TextAt(p)' = TextAt(p)
    BY <1>1, <2>6, SameAtLine
  <2> QED
    BY <2>1, <2>3, <2>4, <2>6, <2>7
<1>8. LinesLeft'
  <2> SUFFICES ASSUME NEW p, NEW i, Applying(p, i)'
               PROVE  /\ Emptied(p)' \/ argv'[p] \in DOMAIN text'
                      /\ TextAt(p)' \in Seq(Seq(STRING)) /\ lines' \in Seq(Seq(STRING))
                      /\ \A k \in DOMAIN TextAt(p)' : WordsApart(TextAt(p)'[k])
                      /\ i \in Nat
                      /\ \A k \in 1..Len(lines') : lines'[k] = TextAt(p)'[i + k]
    BY DEF LinesLeft, WordsApart
  <2>1. PICK j : Applying(p, j) /\ i = j + 1 /\ TextAt(p)' = TextAt(p) /\ p \in 1..(next - 1)
    BY <1>7
  <2>2. \A k \in DOMAIN TextAt(p) : WordsApart(TextAt(p)[k])
    BY <2>1 DEF MInv, LinesLeft
  <2>5. Emptied(p)' \/ argv'[p] \in DOMAIN text'
    <3>1. Emptied(p) \/ argv[p] \in DOMAIN text
      BY <2>1 DEF MInv, LinesLeft
    <3> QED
      BY <1>1, <2>1, <3>1, SameRun, SameAtLine
  <2>3. j \in Nat /\ TextAt(p) \in Seq(Seq(STRING)) /\ Tail(lines) \in Seq(Seq(STRING))
        /\ \A k \in 1..Len(Tail(lines)) : Tail(lines)[k] = TextAt(p)[(j + 1) + k]
    BY <1>1, <2>1, AtLine
  <2>4. j + 1 \in Nat
    BY <2>3, Successor
  <2> QED
    BY <1>1, <2>1, <2>2, <2>3, <2>4, <2>5, Zenon
<1>9. LogKnown'
  <2> SUFFICES ASSUME NEW p, NEW i, Applying(p, i)'
               PROVE  log' # "" <=> \/ \E q \in 1..(p - 1) : OpensLog(q)'
                                    \/ \E k \in 1..i : Gives(TextAt(p)[k], "log")'
    BY <1>1 DEF LogKnown, Opened
  <2>1. PICK j : Applying(p, j) /\ i = j + 1 /\ TextAt(p)' = TextAt(p)
    BY <1>7
  <2>2. log # "" <=> \/ \E q \in 1..(p - 1) : OpensLog(q)
                     \/ \E k \in 1..j : Gives(TextAt(p)[k], "log")
    BY <2>1 DEF MInv, LogKnown, Opened
  <2>3. j \in Nat /\ Head(lines) = TextAt(p)[j + 1]
    BY <1>1, <2>1, AtLine
  <2>4. \A k : k \in 1..i <=> k \in 1..j \/ k = j + 1
    BY <2>1, <2>3, Successor
  <2>5. (\E k \in 1..i : Gives(TextAt(p)[k], "log"))
          <=> (\E k \in 1..j : Gives(TextAt(p)[k], "log")) \/ Gives(Head(lines), "log")
    BY <2>3, <2>4, Zenon
  <2>6. \A k : Gives(TextAt(p)[k], "log")' <=> Gives(TextAt(p)[k], "log")
    BY <2>1 DEF Gives, Meaning, Ends, Uncommented, WordsAt, KeyMeant, ValueMeant
  <2>7. \A q : OpensLog(q)' <=> OpensLog(q)
    BY <1>1, SameRun
  <2> QED
    BY <2>2, <2>5, <2>6, <2>7, Zenon
<1>10. ConfigKnown'
  <2> SUFFICES ASSUME NEW p, NEW i, Applying(p, i)', NEW key \in Keys
               PROVE  Has(config', key, AfterLines(key, p, i)')
    BY DEF ConfigKnown, Keys, Has, Addressing, Settings, IntFreq
  <2>1. PICK j : Applying(p, j) /\ i = j + 1 /\ TextAt(p)' = TextAt(p) /\ p \in 1..(next - 1)
    BY <1>7
  <2>2. AfterLines(key, p, i)' = AfterLines(key, p, j + 1)
    BY <1>1, <2>1, SameAtLine
  <2>3. j \in Nat /\ Head(lines) = TextAt(p)[j + 1]
    BY <1>1, <2>1, AtLine
  <2>4. AfterLines(key, p, j + 1) = IF Gives(Head(lines), key)
                                    THEN Numerals[ValueMeant(Head(lines))]
                                    ELSE AfterLines(key, p, j)
    BY <2>3, OneMoreLine
  <2>5. Has(config, key, AfterLines(key, p, j))
    BY <2>1 DEF MInv, ConfigKnown
  <2> QED
    BY <2>2, <2>4, <2>5
<1> QED
  BY <1>3, <1>4, <1>5, <1>6, <1>8, <1>9, <1>10 DEF MInv
LEMMA LineMeant ==
    ASSUME Base, MInv, ApplyLine
    PROVE  MInv'
<1> DEFINE line == Head(lines)
<1>1. /\ phase = "applyConfig" /\ run' = run /\ run \in Invocations
      /\ lines # <<>>
  BY DEF ApplyLine, Base, TypeInv
<1>2. CASE phase' = "RET_CONFIG"
  <2>1. rom' = rom
    BY DEF ApplyLine, OpenLog, Exit
  <2> QED
    BY <1>1, <1>2, <2>1, Ending, Phases
<1>3. CASE phase' # "RET_CONFIG"
  <2>1. line \in Seq(STRING) /\ WordsApart(line)
    <3>1. PICK p, j : Applying(p, j)
      BY <1>1 DEF Applying
    <3> QED
      BY <1>1, <3>1, AtLine
  <2>2. preprocessLine(line) = Meaning(line)
    BY <2>1, LineMeaning
  <2>3. Meaning(line) = "OK" => Key(line) = KeyMeant(line) /\ Value(line) = ValueMeant(line)
    BY <2>1, WordsMeant
  <2>4. "log" \notin Keys
    BY DEF Keys, Addressing, IntFreq
  <2>5. CASE Meaning(line) # "OK" /\ UNCHANGED <<config, log, ram, rom, phase>>
    <3>1. \A key : ~Gives(line, key)
      BY <2>5 DEF Gives
    <3>2. \A key, value : Has(config, key, value) => Has(config', key, value)
      BY <2>5
    <3> QED
      BY <1>1, <2>5, <3>1, <3>2, AfterLine
  <2>6. CASE Meaning(line) = "OK" /\ Key(line) = "log" /\ OpenLog(Value(line), phase)
    <3>1. log = "" /\ log' \in Writable /\ UNCHANGED <<config, ram, rom, phase>>
      BY <1>3, <2>6 DEF OpenLog, Exit
    <3>2. log' # ""
      BY <3>1, BootAssumption
    <3>3. Gives(line, "log") /\ \A key \in Keys : ~Gives(line, key)
      BY <2>3, <2>4, <2>6 DEF Gives, Keys
    <3>4. \A key, value : Has(config, key, value) => Has(config', key, value)
      BY <3>1
    <3> QED
      BY <1>1, <3>1, <3>2, <3>3, <3>4, AfterLine
  <2>7. CASE /\ Meaning(line) = "OK" /\ Key(line) # "log" /\ ~Refused(line)
             /\ config' = Apply(config, Key(line), Numerals[Value(line)])
             /\ UNCHANGED <<log, ram, rom, phase>>
    <3>1. PICK key, value : key = Key(line) /\ value = Numerals[Value(line)]
      OBVIOUS
    <3>2. key \in Keys /\ key = KeyMeant(line) /\ value = Numerals[ValueMeant(line)]
      BY <2>3, <2>7, <3>1 DEF Refused
    <3>3. PICK sets \in BOOLEAN : sets <=> (key \in DOMAIN IntFreq => value # 0)
      OBVIOUS
    <3>4. /\ sets => Has(config', key, value)
          /\ \A k, v : Has(config, k, v) /\ (k # key \/ ~sets) => Has(config', k, v)
      <4>1. ConfigTyped(config) /\ config' = Apply(config, key, value)
        BY <2>7, <3>1 DEF Base, TypeInv
      <4> QED
        BY <3>2, <3>3, <4>1, ApplyHas
    <3>5. \A k : Gives(line, k) <=> k = key /\ sets
      BY <2>7, <3>2, <3>3 DEF Gives
    <3>6. \A k \in Keys : /\ Gives(line, k) => Has(config', k, Numerals[ValueMeant(line)])
                          /\ ~Gives(line, k)
                               => \A v : Has(config, k, v) => Has(config', k, v)
      BY <3>2, <3>4, <3>5
    <3>7. ~Gives(line, "log")
      BY <2>7, <3>1, <3>5
    <3> QED
      BY <1>1, <2>7, <3>6, <3>7, AfterLine
  <2> QED
    BY <1>3, <2>2, <2>5, <2>6, <2>7 DEF ApplyLine, Exit
<1> QED
  BY <1>2, <1>3

LEMMA EndMeant ==
    ASSUME Base, MInv, EndOfConfig
    PROVE  MInv'
<1>1. /\ phase = "applyConfig" /\ phase' = "parse_arg" /\ lines = <<>>
      /\ config' = SET_WORD_SIZE(config)
      /\ UNCHANGED <<run, next, reading, ignore_first_line, rom, log, ram, lines>>
  BY DEF EndOfConfig
<1>2. /\ next \in Nat /\ next > 2 /\ argv[next - 2] \in ConfigFile /\ reading = {}
      /\ DOMAIN config = Fields
  BY <1>1 DEF Base, IInv, Places
<1>3. /\ IsValue' = IsValue /\ Programs' = Programs
      /\ \A p, options : IsOption(p, options)' <=> IsOption(p, options)
      /\ \A p : OpensLog(p)' <=> OpensLog(p)
  BY <1>1, SameRun
<1>4. IsValue[next - 1]
  BY <1>1 DEF MInv, Awaiting
<1>5. PICK p \in Nat : p = next - 1 /\ p < next
  BY <1>2, Predecessor
<1>6. p > 0 /\ p - 1 = next - 2
  BY <1>2, <1>5
<1>7. ValueOf(p, ConfigFile)
  BY <1>2, <1>4, <1>5, <1>6, Zenon DEF ValueOf
<1>8. PICK j : j = Len(TextAt(p)) - Len(lines)
  OBVIOUS
<1>9. Applying(p, j)
  BY <1>1, <1>5, <1>8 DEF Applying
<1>10. TextAt(p) \in Seq(Seq(STRING)) /\ (Emptied(p) \/ argv[p] \in DOMAIN text) /\ j \in Nat
  BY <1>9 DEF MInv, LinesLeft
<1>11. DOMAIN TextAt(p) = 1..j
  <2>1. Len(TextAt(p)) \in Nat /\ DOMAIN TextAt(p) = 1..Len(TextAt(p))
    BY <1>10, LenIs
  <2>2. Len(lines) = 0
    BY <1>1
  <2>3. j = Len(TextAt(p))
    BY <1>8, <2>1, <2>2
  <2> QED
    BY <2>1, <2>3, Zenon
<1>12. Awaiting'
  BY <1>1, <1>2, <1>3, <1>4 DEF Awaiting
<1>13. LinesLeft'
  BY <1>1 DEF LinesLeft, Applying
<1>14. LogKnown'
  <2>1. log # "" <=> \/ \E q \in 1..(p - 1) : OpensLog(q)
                     \/ \E k \in 1..j : Gives(TextAt(p)[k], "log")
    BY <1>9 DEF MInv, LogKnown, Opened
  <2>2. OpensLog(p) <=> /\ argv[p] \in DOMAIN text
                        /\ \E k \in DOMAIN text[argv[p]] : Gives(text[argv[p]][k], "log")
    <3>1. ~ValueOf(p, LogFile)
      BY <1>7 DEF ValueOf, ConfigFile, LogFile
    <3> QED
      BY <1>7, <3>1 DEF OpensLog
  <2>3. CASE Emptied(p)
    <3>1. \E q \in 1..(p - 1) : OpensLog(q)
      BY <2>3 DEF Emptied
    <3>2. \E q \in 1..p : OpensLog(q)
      BY <3>1
    <3>3. \E q \in 1..(next' - 1) : OpensLog(q)'
      BY <1>1, <1>3, <1>5, <3>2, Zenon
    <3> QED
      BY <1>1, <2>1, <3>1, <3>3 DEF LogKnown, Opened, Applying
  <2>4. CASE ~Emptied(p)
    <3>1. argv[p] \in DOMAIN text /\ TextAt(p) = text[argv[p]]
      BY <1>10, <2>4 DEF TextAt
    <3>2. OpensLog(p) <=> \E k \in 1..j : Gives(TextAt(p)[k], "log")
      BY <1>11, <2>2, <3>1, Zenon
    <3>3. \A q : q \in 1..p <=> q \in 1..(p - 1) \/ q = p
      BY <1>6
    <3>4. log # "" <=> \E q \in 1..p : OpensLog(q)
      BY <2>1, <3>2, <3>3, Zenon
    <3>5. log # "" <=> \E q \in 1..(next' - 1) : OpensLog(q)'
      BY <1>1, <1>3, <1>5, <3>4, Zenon
    <3> QED
      BY <1>1, <3>5 DEF LogKnown, Opened, Applying
  <2> QED
    BY <2>3, <2>4
<1>15. ConfigKnown'
  <2> SUFFICES ASSUME NEW n, n = next' - 1, NEW key \in Keys
               PROVE  Has(config', key, After(key, n)')
    BY <1>1 DEF ConfigKnown, Applying, Keys, Has, Addressing, Settings, IntFreq
  <2>1. n = p
    BY <1>1, <1>5, Zenon
  <2>2. p \in 0..p
    BY <1>5, NotMore
  <2>3. After(key, n)' = After(key, p)
    BY <1>1, <1>5, <2>1, <2>2, SameAtLine
  <2>4. AfterLines(key, p, j) = After(key, p)
    BY <1>6, <1>7, <1>11, AllLines
  <2>5. Has(config, key, AfterLines(key, p, j))
    BY <1>9 DEF MInv, ConfigKnown
  <2> QED
    BY <1>1, <1>2, <2>3, <2>4, <2>5, SetWordSizeHas
<1>16. ProgramKnown'
  BY <1>1, <1>3 DEF MInv, ProgramKnown, Live
<1>17. IgnoreKnown'
  BY <1>1, <1>3 DEF MInv, IgnoreKnown, Live
<1>18. Loaded'
  BY <1>1, LoadedAtLine
<1> QED
  BY <1>12, <1>13, <1>14, <1>15, <1>16, <1>17, <1>18 DEF MInv
-----------------------------------------------------------------------------
(* The arguments are over. *)

LEMMA RunMeant ==
    ASSUME Base, MInv, Run
    PROVE  MInv'
<1>1. /\ phase = "parse_arg" /\ next > Len(argv) /\ argv' = argv
      /\ UNCHANGED <<run, next, reading, ignore_first_line, rom, config, log, lines>>
      /\ phase' \in {"RET_INVALID_ARGS", "reflet_run", "killed"}
  BY DEF Run, argv
<1>2. next \in 1..(Len(argv) + 1) /\ run \in Invocations
  BY DEF Base, TypeInv, TypeOK
<1>3. Len(argv) \in Nat /\ DOMAIN argv = 1..Len(argv)
  BY <1>2, ArgvTyped
<1>4. next = Len(argv) + 1 /\ next \in Nat /\ next - 1 = Len(argv) /\ next > 0
  BY <1>1, <1>2, <1>3
<1>5. Programs' = Programs
  BY <1>1, SameRun
<1>6. PICK n \in Nat : n = next - 1
  BY <1>3, <1>4
<1>7. \A p \in 1..n : Emptied(p)' <=> Emptied(p)
  BY <1>1, SameRun DEF Emptied
<1>8. \A m \in 0..n : \A key : After(key, m)' = After(key, m)
  BY <1>1, <1>7, SameMeaning
<1>9. ProgramKnown'
  <2>1. CASE phase' = "RET_INVALID_ARGS"
    <3>1. rom = 0
      BY <2>1 DEF Run
    <3>2. \A p \in 1..(next - 1) : p \notin Programs
      BY <1>1, <3>1 DEF MInv, ProgramKnown, Live
    <3>3. \A p \in DOMAIN argv : p \notin Programs
      BY <1>3, <1>4, <3>2, Zenon
    <3>4. Programs = {}
      BY <3>3 DEF Programs
    <3> QED
      BY <1>1, <1>5, <2>1, <3>1, <3>4 DEF ProgramKnown, Live
  <2>2. CASE phase' # "RET_INVALID_ARGS"
    <3>1. rom # 0 /\ phase' \notin {"parse_arg", "applyConfig", "RET_INVALID_ARGS"}
      BY <1>1, <2>2 DEF Run
    <3>2. rom \in Programs /\ \A p \in Programs : rom <= p
      BY <3>1 DEF MInv, ProgramKnown
    <3> QED
      BY <1>1, <1>4, <1>5, <3>1, <3>2 DEF ProgramKnown, Live
  <2> QED
    BY <2>1, <2>2
<1>10. CASE phase' # "reflet_run"
  BY <1>1, <1>9, <1>10 DEF MInv, Awaiting, LinesLeft, LogKnown, ConfigKnown,
                           IgnoreKnown, Loaded, Live, Applying
<1>11. CASE phase' = "reflet_run"
  <2>1. ConfigKnown'
    <3> SUFFICES ASSUME NEW m, m = next' - 1, NEW key \in Keys
                 PROVE  Has(config', key, After(key, m)')
      BY <1>11 DEF ConfigKnown, Applying, Keys, Has, Addressing, Settings, IntFreq
    <3>1. m = n /\ n \in 0..n
      BY <1>1, <1>6, NotMore
    <3>2. Has(config, key, After(key, n))
      BY <1>1, <1>6 DEF MInv, ConfigKnown
    <3> QED
      BY <1>1, <1>8, <3>1, <3>2
  <2>2. Loaded'
    <3>1. rom # 0
      BY <1>11 DEF Run
    <3> SUFFICES ASSUME NEW p, p = rom
                 PROVE  /\ BytesGiven(p)' \in Seq(Byte) /\ After("ram_size", p - 1)' \in Nat
                        /\ DOMAIN ram' = 0..(After("ram_size", p - 1)' - 1)
                        /\ Len(BytesGiven(p))' < After("ram_size", p - 1)'
                        /\ \A a \in DOMAIN ram' :
                             \/ CellGiven(p, a)'
                             \/ config'.extended_io /\ a = IO_CMD /\ ram'[a] = IO_NOP
      BY <1>1, <1>11 DEF Loaded
    <3>2. /\ BytesGiven(p) \in Seq(Byte) /\ After("ram_size", p - 1) \in Nat
          /\ DOMAIN ram = 0..(After("ram_size", p - 1) - 1)
          /\ Len(BytesGiven(p)) < After("ram_size", p - 1)
          /\ \A a \in DOMAIN ram : CellGiven(p, a)
      BY <1>1, <3>1 DEF MInv, Loaded, Live
    <3>3. rom \in Nat /\ rom < next
      BY <1>1 DEF Base, IInv, Places
    <3>4. p \in 1..n /\ p - 1 \in 0..n
      <4>1. rom \in 1..(next - 1) /\ rom - 1 \in 0..(next - 1)
        BY <1>4, <3>1, <3>3, BeforeRange
      <4> QED
        BY <1>6, <4>1, Zenon
    <3>5. BytesGiven(p)' = BytesGiven(p)
      BY <1>1, <1>7, <3>4, SameLines
    <3>6. \A key : After(key, p - 1)' = After(key, p - 1)
      BY <1>8, <3>4
    <3>7. /\ DOMAIN ram' = DOMAIN ram
          /\ \A a \in DOMAIN ram :
               ram'[a] = ram[a] \/ (config.extended_io /\ a = IO_CMD /\ ram'[a] = IO_NOP)
      BY <1>11 DEF Run
    <3>8. \A a : ram'[a] = ram[a] /\ CellGiven(p, a) => CellGiven(p, a)'
      BY <3>5, <3>6 DEF CellGiven, CellOf
    <3> QED
      BY <1>1, <3>2, <3>5, <3>6, <3>7, <3>8
  <2> QED
    BY <1>1, <1>9, <1>11, <2>1, <2>2 DEF MInv, Awaiting, LinesLeft, LogKnown,
                                         IgnoreKnown, Live, Applying
<1> QED
  BY <1>10, <1>11

LEMMA SameState ==
    ASSUME MInv, UNCHANGED <<run, next, reading, ignore_first_line, rom, config, log, ram,
                             lines, phase>>
    PROVE  MInv'
<1>1. /\ argv' = argv /\ text' = text /\ bytes' = bytes
      /\ IsValue' = IsValue /\ Programs' = Programs
      /\ \A p : OpensLog(p)' <=> OpensLog(p)
      /\ \A p, options : /\ ValueOf(p, options)' <=> ValueOf(p, options)
                         /\ IsOption(p, options)' <=> IsOption(p, options)
  BY SameRun
<1>2. \A p : TextAt(p)' = TextAt(p) /\ BytesAt(p)' = BytesAt(p) /\ (Emptied(p)' <=> Emptied(p))
  BY <1>1 DEF TextAt, BytesAt, Emptied
<1>3. \A p, key : LinesFor(p, key)' = LinesFor(p, key)
  BY <1>2, Zenon DEF LinesFor
<1>4. \A p, key : ArgumentGives(p, key)' <=> ArgumentGives(p, key)
  BY <1>1, <1>3, Zenon DEF ArgumentGives
<1>5. \A p, key : Given(p, key)' = Given(p, key)
  BY <1>1, <1>2, <1>3 DEF Given
<1>6. \A key, n : After(key, n)' = After(key, n)
  BY <1>4, <1>5, Zenon DEF After
<1>7. \A key, p, j : AfterLines(key, p, j)' = AfterLines(key, p, j)
  BY <1>2, <1>6, Zenon DEF AfterLines
<1>8. \A p : BytesGiven(p)' = BytesGiven(p)
  BY <1>1, <1>2, Zenon DEF BytesGiven
<1>9. \A p, a : CellGiven(p, a)' <=> CellGiven(p, a)
  BY <1>6, <1>8 DEF CellGiven, CellOf
<1>10. \A p, j : Applying(p, j)' <=> Applying(p, j)
  BY <1>2 DEF Applying
<1>11. Awaiting' /\ ProgramKnown' /\ IgnoreKnown'
  BY <1>1 DEF MInv, Awaiting, ProgramKnown, IgnoreKnown, Live
<1>12. LinesLeft'
  BY <1>1, <1>2, <1>10, Zenon DEF MInv, LinesLeft
<1>13. LogKnown'
  BY <1>1, <1>2, <1>10, Zenon DEF MInv, LogKnown, Opened
<1>14. ConfigKnown'
  BY <1>6, <1>7, <1>10, Zenon DEF MInv, ConfigKnown
<1>15. Loaded'
  BY <1>6, <1>8, <1>9 DEF MInv, Loaded, Live
<1> QED
  BY <1>11, <1>12, <1>13, <1>14, <1>15 DEF MInv

LEMMA NextMeant ==
    ASSUME Base, MInv, [Next]_vars
    PROVE  MInv'
<1>1. CASE ParseArg
  <2>1. CASE reading # {} /\ ReadValue
    BY <1>1, <2>1, ConfigFileMeant, WordSizeMeant, RamSizeMeant, LogFileMeant DEF ReadValue
  <2>2. CASE reading = {} /\ (ReadOption \/ ReadProgram \/ Unused)
    BY <1>1, <2>2, OptionMeant, ProgramMeant, UnusedMeant
  <2> QED
    BY <1>1, <2>1, <2>2 DEF ParseArg
<1>2. CASE UNCHANGED vars
  <2>1. /\ UNCHANGED <<run, next, reading, ignore_first_line, rom, config, log, ram,
                       lines, phase>>
    BY <1>2 DEF vars
  <2> QED
    BY <2>1, SameState
<1> QED
  BY <1>1, <1>2, LineMeant, EndMeant, RunMeant DEF Next, Ended
LEMMA Meant == Spec => [](Base /\ MInv)
<1>1. Init => MInv
  BY InitMeant
<1>2. Base /\ MInv /\ [Next]_vars => MInv'
  BY NextMeant
<1>3. TypeInv /\ IInv => Base
  BY DEF Base
<1> QED
  BY <1>1, <1>2, <1>3, Typing, Invariant, PTL DEF Spec

-----------------------------------------------------------------------------
(* What the command line means is what happens. *)

(* The automaton of preprocessLine reads every line of every file as its   *)
(* comment says, and finds in it the key and the value that are meant.     *)
THEOREM LinesMeanWhatTheySay == Spec => []LinesRead
<1>1. ASSUME Base, MInv, phase = "applyConfig", lines # <<>>
      PROVE  LET line == Head(lines)
             IN  /\ preprocessLine(line) = Meaning(line)
                 /\ Meaning(line) = "OK" =>
                      Key(line) = KeyMeant(line) /\ Value(line) = ValueMeant(line)
  <2>1. PICK p, j : Applying(p, j)
    BY <1>1 DEF Applying
  <2>2. Head(lines) \in Seq(STRING) /\ WordsApart(Head(lines))
    BY <1>1, <2>1, AtLine
  <2> QED
    BY <2>2, LineMeaning, WordsMeant
<1>2. Base /\ MInv => LinesRead
  BY <1>1 DEF LinesRead
<1> QED
  BY <1>2, Meant, PTL

(* When the machine runs, every setting has the value of the last argument *)
(* that gives one, whatever the order of the options and of the files.     *)
THEOREM LastArgumentPrevails == Spec => []LastPrevails
<1>1. ASSUME Base, MInv, phase = "reflet_run"
      PROVE  /\ \A key \in Settings : config[key] = After(key, Len(argv))
             /\ config.extended_io = (After("extended_io", Len(argv)) # 0)
             /\ \A key \in DOMAIN IntFreq :
                  /\ config.enable[IntFreq[key]] = (After(key, Len(argv)) # 0)
                  /\ config.freq[IntFreq[key]] = ToInt(After(key, Len(argv)))
  <2>1. Len(argv) \in Nat /\ next = Len(argv) + 1
    BY <1>1, ArgvTyped DEF Base, TypeInv, MInv, ProgramKnown
  <2>2. Len(argv) = next - 1
    BY <2>1
  <2>3. \A key \in Keys : Has(config, key, After(key, Len(argv)))
    BY <1>1, <2>2 DEF MInv, ConfigKnown
  <2>4. Keys = Settings \cup DOMAIN IntFreq \cup {"extended_io"}
    BY DEF Keys, Settings
  <2> QED
    BY <2>3, <2>4 DEF Has
<1>2. Base /\ MInv => LastPrevails
  BY <1>1 DEF LastPrevails
<1> QED
  BY <1>2, Meant, PTL

(* The program that is loaded is the one that is meant. *)
LEMMA ProgramIs ==
    ASSUME Base, MInv, rom # 0
    PROVE  Programs # {} /\ Program = rom
<1>1. rom \in Programs /\ \A p \in Programs : rom <= p
  BY DEF MInv, ProgramKnown
<1>2. Programs \subseteq Nat
  <2>1. Len(argv) \in Nat /\ DOMAIN argv = 1..Len(argv)
    BY ArgvTyped DEF Base, TypeInv
  <2>2. Programs \subseteq DOMAIN argv
    BY DEF Programs
  <2>3. 1..Len(argv) \subseteq Nat
    BY <2>1
  <2> QED
    BY <2>1, <2>2, <2>3, Zenon
<1> QED
  BY <1>1, <1>2, MinUnique DEF Program

(* What runs is the program that is meant, cut where -! says, in a RAM of  *)
(* the size it was given, with no cell changed but the command cells.      *)
THEOREM ProgramMeantRuns == Spec => []ProgramRuns
<1>1. ASSUME Base, MInv, phase = "reflet_run"
      PROVE  /\ Programs # {}
             /\ DOMAIN ram = 0..(After("ram_size", Program - 1) - 1)
             /\ Len(ProgramGiven) < After("ram_size", Program - 1)
             /\ \A a \in DOMAIN ram :
                  \/ ram[a] = CellOf(ProgramGiven, a)
                  \/ /\ a \in {After("tx_cmd", Program - 1), After("rx_cmd", Program - 1)}
                     /\ CellOf(ProgramGiven, a) = 0 /\ ram[a] = 1
                  \/ config.extended_io /\ a = IO_CMD /\ ram[a] = IO_NOP
  <2>1. rom # 0
    BY <1>1 DEF MInv, ProgramKnown
  <2>2. Programs # {} /\ Program = rom
    BY <1>1, <2>1, ProgramIs
  <2>3. PICK p : p = Program
    OBVIOUS
  <2>4. ProgramGiven = BytesGiven(p)
    BY <2>3 DEF ProgramGiven
  <2>5. /\ DOMAIN ram = 0..(After("ram_size", p - 1) - 1)
        /\ Len(BytesGiven(p)) < After("ram_size", p - 1)
        /\ \A a \in DOMAIN ram :
             \/ CellGiven(p, a)
             \/ config.extended_io /\ a = IO_CMD /\ ram[a] = IO_NOP
    BY <1>1, <2>1, <2>2, <2>3 DEF MInv, Loaded
  <2> QED
    BY <2>2, <2>3, <2>4, <2>5 DEF CellGiven
<1>2. MInv => (phase = "RET_INVALID_ARGS" => Programs = {})
  BY DEF MInv, ProgramKnown
<1>3. Base /\ MInv => ProgramRuns
  BY <1>1, <1>2, Zenon DEF ProgramRuns
<1> QED
  BY <1>3, Meant, PTL

(* A program that has its magic word begins inside of the RAM. *)
THEOREM ProgramStartsInRam == Spec => []StartsInRam
<1>1. ASSUME Base, MInv, phase = "reflet_run", Len(ProgramGiven) >= START_CHAR
      PROVE  START_CHAR \in DOMAIN ram
  <2>1. rom # 0
    BY <1>1 DEF MInv, ProgramKnown
  <2>2. PICK p : p = rom /\ ProgramGiven = BytesGiven(p)
    BY <1>1, <2>1, ProgramIs DEF ProgramGiven
  <2>3. PICK size : size = After("ram_size", p - 1)
    OBVIOUS
  <2>4. /\ BytesGiven(p) \in Seq(Byte) /\ size \in Nat
        /\ DOMAIN ram = 0..(size - 1) /\ Len(BytesGiven(p)) < size
    BY <1>1, <2>1, <2>2, <2>3 DEF MInv, Loaded
  <2>5. Len(BytesGiven(p)) \in Nat /\ Len(BytesGiven(p)) >= 4
    BY <1>1, <2>2, <2>4, LenIs DEF START_CHAR
  <2>6. 4 \in 0..(size - 1)
    BY <2>4, <2>5
  <2> QED
    BY <2>4, <2>6 DEF START_CHAR
<1>2. Base /\ MInv => StartsInRam
  BY <1>1 DEF StartsInRam
<1> QED
  BY <1>2, Meant, PTL
=============================================================================
