# A TLA+ model of Reflet

Reflet is a small processor: an instruction set of one-byte instructions, sixteen registers,
and four prioritised interrupts that nest. The repository implements it twice, as a simulator in
C (`simulator/`) and as a processor in Verilog (`rtl/`), and has an assembler, libraries, the
context switch of a small operating system, and tests for them. This directory holds TLA+
models of that code, the TLC configurations that check them, and proofs that TLAPS checks.

## Inventory

| Component | State | Operations | Interactions |
|---|---|---|---|
| Simulator core, `simulator/reflet.c` | `reflet`: 16 registers, RAM, byte mode, `active`, the routine and counter of each interrupt, the level with its two stacks | `reflet_run` repeats `check_int`, `run_inst`, `io`; one case of `run_inst` per instruction | stdin and stdout through cells of the RAM; the configuration; ends the process on an access or a PC outside of the RAM |
| Simulator start, `main.c`, `config.c`, `loader.c` | flags of `parse_arg`, `reflet_config` | parse an argument, apply a configuration file, load a program | allocates the RAM and fills it, then calls `reflet_run` |
| Simulator log, `debug.c` | a file | a line per instruction | reads the machine |
| Processor, `rtl/reflet_cpu.v` | registers, `quit`, the instruction in each unit | one update per instruction, on the clock at which the memory interface is ready | instantiates the three below |
| Interrupt controller, `rtl/reflet_interrupt.v` | latched requests, level, level and address memories, routines | latch, enter, return, set and get routines and addresses | requests from outside or from the alignment error, `cpu_update` |
| Memory interface, `rtl/reflet_addr.v` | instruction, byte mode, the phase of an access | fetch, load, store, alignment error | the system bus; tells the CPU when to update |
| ALU, `rtl/reflet_alu.v` | none | the arithmetic instructions | |
| Assembler, `assembler/src/` | the lines of the source, labels, address | macros, alignment, labels, encoding | produces the image that the loader reads; its default macros use R11, R12 and SR of the program |
| Legacy assemblers, `assembler/legacy_assemblers/` | as above | as above | superseded |
| Context switch, `software/os/reflet_os.asm` | the stack of each task, a register that points to the other's | save and restore the context of a task | runs in the routine of an interrupt; uses GETINTSTACK |
| Libraries, `software/libs/` | registers and stack | arithmetic, memory, strings, printing, I/O | called by programs; write in the buffers they are given and in the command cells |
| Tests, `software/test_*.asm`, `rtl/simu/`, `software/non-regression/` | | | programs and stimuli |

What is hard in this system is its interrupts. They come from three sources (timers, the
SOFTINT instruction, and the trap of a misaligned access), may fall between any two
instructions, nest by priority, and share with the program all the registers but the PC, the
comparison bit, the byte mode, the RAM and the I/O cells. The return from an interrupt depends on
two stacks that the program can partly rewrite and that are not initialised. The trap is raised
in the middle of an instruction which is still carried out. In the processor an interrupt
cancels an instruction in progress. In software, most macros of the assembler borrow registers and
change the size of the accesses for a few instructions, and a context switch has to save registers with those
very macros. The start of the simulator depends on the order of its arguments. `PROJECT.json` lists these hazards, each at its line with the
properties that would catch it.

What makes each component correct:

- *interrupts* (both implementations): contexts nest by priority, the innermost closes first, and
  the machine goes on at the address kept for it; an interrupt that is raised is taken once;
- *accesses*: what is stored is what is loaded, the two ends of the stack agree, a misaligned
  access with the trap on runs the routine;
- *a program among interrupts*: routines that restore what they use cannot be seen by it, ATOM
  makes a lock, and the program goes on;
- *start*: the machine that runs is the one that the arguments describe, the last one given prevailing;
  its RAM has the configured size, and no I/O happens before the program asks for it;
- *processor*: every instruction does what it does in the simulator, once;
- *assembler*: what it encodes is what is decoded, and a label is the address where it ends up;
- *context switch*: a task finds all of its registers when it is resumed;
- *libraries*: a function leaves the result its documentation says, in registers, memory or on stdout, keeps all
  other registers, and writes nowhere else.

## The modules

| Module | What it is |
|---|---|
| `Words` | machine words: C's bit operators on naturals |
| `Opcodes` | the instruction set, `opperand.h`, and the registers of `reflet.h` |
| `Contexts` | the chain of open interrupt contexts, for a level and a table of levels |
| `Simulator` | the simulator core: a step for `check_int`, one for each instruction of `run_inst`, one for `io` |
| `PriorityNest` | what the interrupt system promises, whoever implements it |
| `SimulatorProps` | the properties of `Simulator`, and its refinement mapping to `PriorityNest` |
| `TrapWatch` | `Simulator` with a record of the trap of a misaligned access, from the access to the end of its routine |
| `Boot` | the start of the simulator: a step per argument of the command line and per line of a configuration file |
| `BootProps` | the properties of `Boot`, with the meaning of a command line defined a second time |
| `Undisturbed` | two instances of `Simulator` with one program, one with timers and one without |
| `SharedLock` | `Simulator` with a program and a routine that share the I/O under a lock, and the properties of the lock |
| `RtlAlu` | the ALU of the processor, combinational |
| `RtlAddr` | its memory interface: sequencer, reader, writer, a step per clock |
| `RtlInterrupt` | its interrupt controller, a step per clock, and by itself with any inputs |
| `RtlCpu` | the processor: registers and update, composing the three with the memory of the test benches |
| `RtlProps` | the properties of `RtlCpu`, and its refinement mapping to `PriorityNest` |
| `RtlLockstep` | `RtlCpu` beside an instance of `Simulator` with the same program |
| `Assembler` | from lines of assembly to the bytes of a program: encoding, macros, alignment, labels |
| `Libs` | the libraries, in that assembly |
| `Os` | the context switch and the two tasks of its test, in that assembly |
| `Programs` | `Simulator` running what `Assembler` makes of `Os` and of calls of `Libs`, with their properties |
| `MCInterrupts`, `MCRefused`, `MCMemory`, `MCUndisturbed`, `MCLock`, `MCBoot`, `MCPrograms`, `MCRtl` | programs, command lines and bounds for TLC |
| `Words_proofs`, `Contexts_proofs` | facts about words and about the chain of contexts, used by the theorems |
| `Simulator_proofs`, `SharedLock_proofs`, `Boot_proofs`, `RtlInterrupt_proofs`, `RtlCpu_proofs`, `RtlTypes_proofs` | theorems |

`Programs` composes four of them: `Assembler` makes the image, which `Simulator` loads and runs. `RtlLockstep` and
`Undisturbed` run two machines side by side. `Simulator` and `RtlCpu` both implement `PriorityNest`.

### How Simulator corresponds to reflet.c

The variables are the fields of `struct reflet` and of the structures it points to, under their
names: `reg`, `ram`, `byte_mode`, `active`, `routine` and `count_up` (of `ints[i]`), `int_level`,
and `freq` (of `config->ints[i]`, defined for the enabled timers; the counters of the others are
never read). `phase` is where the loop of `reflet_run` stands, or how the process ended, and `out`
is what the last step wrote to stdout: the character of `io`, the line of DEBUG with the values it prints (`Debugged`,
`reflet.c:164`), or the line about a misaligned access (`Misaligned`, `reflet.c:321`), which ATOM may write twice.

The program is in the RAM, and it is the RAM that is fetched from and decoded: a program may
store over itself. `RunInst` fetches a byte and takes the action of its instruction: all 29
operations of `run_inst` are there. `Accepted` and `new_int` are `triger_int` and `new_int`;
`Trap` and `LevelAfter` give what `check_alignement_ok` leaves. The three moves of the PC are there, where the code makes
them: `LevelAfter` saves a PC decremented once (`reflet.c:317`), `PCInAccess` is the routine's address decremented
again (`reflet.c:319`), and `PCAfter` adds the increment at the end of `run_inst` (`reflet.c:275`); each wraps. CALL and RET
overwrite the PC after their access, as in the code. The loops of `loadWordRAM` and `putRAMWord` ask for the size of the access again at each byte, after the trap
may have changed the level; `putRAMWord` takes one size, which the lemma `SizeIsKept` justifies.

`TrapWatch` adds a history variable, `trap`, which a trap sets at the access, as the code decides it but from the registers
alone, and which lasts until the RETINT of its routine. It changes nothing of the simulator.

`Images` are the contents of the RAM after `load_file`, so that the initial states are those of
`reflet_init` followed by a load; `Garbage` is what `malloc` leaves in the two interrupt stacks,
which `reflet_init` does not write. Words are naturals: `HostBits` stands for the 64 bits of
`word_t` (a run keeps fewer) and `WordBytes` for the configured size.

Undefined behaviour of C is a choice: the amount of a shift of a word by 64 or more, the size of an
access whose reduced size is 32 or more, the bytes a store of more than 8 bytes puts beyond the
eighth, the byte fetched outside of the RAM, and the value read at an address that passes the check by
wrapping. A store at such an address changes the bytes of the RAM it reaches; what it does to the
rest of the process is not modelled.

### How Boot corresponds to main.c, config.c and loader.c

`run` is the command line and the files that are there; `next` is the argument that `main` gives to `parse_arg` next.
`reading` is the set of the static flags `reading_*` that are up, `ignore_first_line` and `rom` the other two statics
(`rom_loaded` with the argument that was loaded), `config` is `vm->config` field by field, `ram` is `vm->ram`, and `log`
the file of `vm->debug`. A period is an `int` (`reflet.h:17`) assigned from a number of 64 bits: `ToInt` cuts it to `IntBits` bits, as the builds do (C leaves
it to them), so that an enabled interrupt may have a period of 0 or less. `ParseArg` is a call of `parse_arg`, its disjuncts in the order of the tests of the code, and
ends the process where the code calls `exit`. `-c` begins `applyConfig`, of which `ApplyLine` is a turn of the loop
and `EndOfConfig` what follows it. `LoadProgram` is `initVM`: the loading, the space it needs, and the command cells that are
prepared. `Run` is the end of `main` with `prepare_extended_io`.

A line is a sequence of tokens: a blank, a semicolon, a new line, or a whole word. Words being whole, two are never next to each
other (`WordsApart`, an assumption that TLC evaluates on the lines of the run; the other assumption about files is that none is
called ""). `preprocessLine` is the automaton of the code on them. A word is a number when it is in `Numerals`, which stands for `sscanf`. A file opened for the log is empty
from then on, also when it is the program or a configuration. Command cells outside of the RAM are read, and
perhaps written, beyond it: the process may die.

### How Assembler, Libs, Os and Programs correspond to the software

A line of assembly is a tuple of a mnemonic, a macro or a directive and its arguments. `INSTRUCTION_LIST` is the table of
`micro_assembler.rs`; `Definition` gives the lines a macro stands for, those of `macros.rs`, of `main.rs` (which depend on the word
size) and of `default_macros.asm`. Expansion, layout and links are those of the library `macro_asm_builder`, which is not
in the repository: `Expand`, `Positions` and `Link` model it as the code uses it. `assemble` puts the runtime around
a program: the magic word, the command cells, the label of the stack, SR.

`Libs` and `Os` are the sources, an operator for each function or macro, line by line. Sequences of `pushr`, of `popr`
and of `setlab` with `cpy` have a name each. A mutant is the same operator with a plausible slip.

`Programs` runs an image on `Simulator`. A call gives a function its arguments in R1 to R3 and
recognisable values in the other registers up to R10, calls it, and quits; the function and those it reaches are linked, not the
whole libraries. A timer may run with it, with the routine of `test_interrupt.asm`. The other program is
`basic_context_switching.asm` as it is, with shorter strings and smaller stacks. `printed`, `task` and `saved` are histories and
change nothing.

### How the RTL modules correspond to the Verilog

A step is a rising edge of the clock. A register is a variable, or a field of the record that holds
the registers of its submodule (`control`, `reader`, `writer`), and its primed value is computed
from unprimed ones, as with nonblocking assignments; a wire is an operator. `RtlCpu` connects
`RtlAddr` and `RtlInterrupt` by substitution in INSTANCE, the way the port lists do. Three
registers of the CPU that always hold the same (`instruction_cpu`, `instruction_alu`,
`instruction_int`) are one, `executed`, and the three `content_*_r`, which are read only as
their OR, are one, `content`. Where a unit ORs wires of which one at most is not zero, the
operator is an IF or a sum; where two may be (the outputs of different units), it is `BitOr`.

`enable` and `interrupt_request` are inputs, and change at any edge (`NewInputs`). `Held` is an
edge with `enable` low or after QUIT; `content` and the output of the memory go on at such an
edge, because neither is gated. The reset is the initial state. A register that the reset does not set
holds a value of `PowerUp`. RETINT outside of an interrupt reads `level_memory[4]` and `addr_memory[4]`, which do not
exist: `Return` allows any level, and `addr_memory_out` any value of `PowerUp`.

`RtlLockstep` runs an instance of `Simulator` that executes an instruction at each edge at which
the processor ends one in the same context (`Completes`). The simulator has no timers there, so
that what the processor does for an interrupt from outside must be invisible to the program;
SOFTINT opens a context in both. Known differences are kept out of the comparison by name:
the address that CALL pushes (the processor pushes that of the CALL and RET adds one), and WR
after SETINT, which the processor clears (`content` is 0). The comparison ends where the
trap is enabled, since the two return to different addresses; from there on `TrapTaken` says what the
processor does. The programs do not use GETINT (0 in the processor, whose `getint_out` comes a
clock late), the stack in byte mode outside of an interrupt, ATOM and TBM with
interrupts enabled (but see `rtl_atom`), a SOFTINT that is refused (after which the processor clears WR too, `reflet_cpu.v:170`), or the
SETINTSTACK of an interrupt that is taken at its update (the address just saved is lost, `reflet_interrupt.v:99`).

### What the properties say

`PriorityNest` has three variables: the PC, the set of interrupts whose context is open, and the
address where each will go on. `Enter(i)` needs every open context to be of a lower priority,
`Leave(i)` closes the innermost one only and sets the PC to its address, `Redirect(i)` changes one
address, and nothing else may touch them. The simulator implements it (`NestSpec`) with the chain
found by following `level_stack` from the current level as the open contexts. `NestInv` is why it does:
along that chain priorities strictly decrease down to the program.

`FetchChecked`, `StoredIsLoaded`, `PushedIsPopped`, `TrapRunsRoutine` are about accesses. A store is loaded back in every size that SR can ask for,
those that are larger than a word or undefined included: a load of the same size gives the value cut to that size, and no other byte changes. After a trap the
next instruction executed is the first of the routine, although a timer may expire in between, and the routine keeps the processor up to
the RETINT that goes back to the level of the access. `SameOutput` is in both directions: what a program writes to stdout with timers is what it writes alone,
neither less nor more, but for what the routines write. Then
`ProgramUndisturbed`, `SameOutput`, `ProgramEnds` compare a program with itself run alone;
`MutualExclusion`, `PrintsWhatItRead`, `LockingEnds` are about a lock made with ATOM. `RamAsConfigured`, `NothingPending`, `StartsInRam`
and `WordSizeAgrees` say that the parts of the machine agree when it starts, and `LastPrevails`, `ProgramRuns` and `LinesRead`
compare `Boot`, which reads one argument and one token at a time, with a meaning defined on the whole command line or line. For programs,
`ContextKept` says that a task goes on with the registers it had, all of them, and `TasksAlternate` that
the two take turns; `CallsCompute` compares each function with its mathematical definition,
`RegistersPreserved` is the convention of `software/README.md`, under a timer too, `CodeIntact` that nothing writes on the
program, and `ProgramsEnd` that every function returns. For the processor, `MatchesSimulator`
compares it with the simulator after each instruction, `NestSpec` is the same refinement as for
the simulator (RETINT takes two clocks to bring the address to the PC, through a register ORed with
two others), `ExecutesAtPC` says that the byte that is executed is the one at the PC, `StoresItsBytes` that a store changes
its own bytes of memory and no other, `TrapTaken` is the trap from the access to the routine (for accesses no larger than a word,
the only ones the processor can make). `InstructionsAgree` compares the two machines one instruction at a time: from the same state, an
instruction that changes registers only, or an access by STR, LOAD, PUSH or POP, leaves both in the same state, memory, mode and level included.
The processor writes its memory some clocks before the instruction ends, so that the bytes of a store (`Written`) are not compared before.
It leaves out, by name, shifts by 64 or
more, which C does not define; an instruction at the last address of a word, after which only the PC of the processor wraps; PUSH and POP in byte
mode (a hazard of the list), CALL, RET and ATOM, in which the machines differ or which `rtl_atom` is about; and, by `AccessFits`, accesses that are misaligned, larger than a word or
outside of the RAM, a store in the word of its own instruction, and an SR of 2^16 or more, whose upper bits the simulator takes for the size of accesses and the processor ignores. `ReturnsFromRoutines` is what a program does for its contexts to close: its RETINTs are in
routines, and none follows a GETINT. It is a property of programs, checked of those of the run, and the premise of the theorems about the whole
processor. `PulseTaken` says that a
request of one clock is not lost, and `Responds` and `ProgramEnds` that the handshakes between
sequencer, reader and writer never hang. Each is
stated in a comment where it is defined.

## The runs

| Run | Instance | What it shows | States |
|---|---|---|---|
| `sim_interrupts` | 8-bit words, 32 bytes; two instructions chosen in the program and one in a routine, four sets of timers | type correctness, nesting, fetches, and the refinement of `PriorityNest`, with timers, SOFTINT, SETINTSTACK, disabled interrupts and routines outside of the RAM in any mix | 770 000 |
| `sim_memory` | 16-bit words, 64 bytes; eight access sequences, twelve values of SR, ten addresses, no timer or one that fires at any instruction | accesses and the trap in every size and mode, up to and past the last address, and the trap up to the end of its routine | 892 000 |
| `sim_undisturbed` | 8-bit words, 96 bytes; four programs, one or two timers of 52 sets of periods | interrupts that restore what they use cannot be seen | 57 000 |
| `sim_lock` | 8-bit words, 96 bytes, extended I/O; one program, 48 periods and none | the lock, the characters printed, and the end of the program | 11 000 |
| `rtl_lockstep` | 16-bit words, 128 bytes; 13 programs, lines 0 and 1 up or down and `enable` up or down at every clock | the processor does what the simulator does, over a program and from any same state; fetches and stores on the bus; nesting, and that the programs return from routines only; the trap; requests and handshakes | 157 000 |
| `rtl_atom` | a program that takes a free lock with interrupt 1 enabled | expected violation of `MatchesSimulator` | |
| `boot` | RAM of 10 bytes by default, an `int` of 4 bits; command lines of up to four options (of 13 with their values) or four misplaced words; configuration files with any line of up to six tokens, or a key given twice; a log that is also a file read before or after | the machine that runs is the one described, and its parts agree | 566 000 |
| `programs` | 16-bit words, 1664 bytes; the two tasks, and 119 calls of the functions and macros, 14 of them under a timer | the context switch, the results of functions, what they preserve, and that they end | 257 000 |
| `rtl_softint` | a program that opens interrupt 1 by SOFTINT, interrupt 0 enabled | expected violation of `MatchesSimulator` | |
| `trap_resume` | as `sim_memory` | expected violation of `TrapResumesAtAccess` | |
| `trap_routine` | as `sim_memory` | expected violation of `InterruptGoesToRoutine` | |
| `refused_interrupt` | as `sim_interrupts` | expected violation of `RefusedIsTakenAfterReturn` | |

Why the bounds are enough. The interrupt system compares four levels and copies addresses; the
programs of `MCInterrupts` reach all chains of up to four open contexts, in every order of opening, with
every source. An access depends on the address modulo its size, on its distance to the end of the RAM,
and on the sizes 1, 2, 4, 8 and above: `MCMemory` has each of them, from 16 and 32 bytes to the undefined ones, with a word of two bytes so that an
access may be smaller and larger than a word. Its timer has the routine of the trap, and fires before, at and after the access. For `Undisturbed` and `MCLock` what matters is where the
timer falls: the periods go from one more than the length of the routine (for `Undisturbed` one less starves
the program and `ProgramEnds` fails) to periods that fire at every instruction of the program in turn.

In `rtl_lockstep` the two lines are never up together, but a request that is latched or
in progress meets the other in every order, so that both contexts nest; the routine of 1 uses the stack
and a register, that of 0 the status register. The inputs are free at every edge of the whole program, and
each state of the sequencer meets each of their changes. Interrupts 2 and 3 differ from 0 and 1 in
the comparison of levels only, which the theorems cover for all four.

In `boot`, what may go wrong depends on the order of the arguments: four options are a configuration, a size, a program and `-!` or
`-x` in every order and with repetitions, and the sizes are below, at and above those of the programs. The periods are 0, one that an
`int` of 4 bits holds, one that it makes negative and one that it makes 0.
Any automaton error on lines shows with two words, so that six tokens are enough: blank, word, blank, word, blank, end.

In `programs`, words have 16 bits: several bytes, so that the sizes of accesses differ, and numbers with five digits. Arguments
include 0, 1, results that wrap, and quotients equal to, less and greater than one. The timers fire at another instruction at each turn of a
loop, and their periods are just above the length of the routine. The stacks of the tasks have 64 bytes; a context takes 30.

Twelve disagreements between the documents and the code, or between the two implementations, came out while modelling. Five have a run that violates
what the document says:

1. `trap_resume`: README.md says that the trap returns to the access; the address kept is the one
   before it (`reflet.c:317` decrements a PC that has not been incremented yet).
2. `trap_routine`: a CALL or RET with a misaligned stack pointer opens the context of interrupt 0,
   then jumps to its own target instead of the routine.
3. `refused_interrupt`: README.md says that an interrupt raised in the context of a higher
   priority is taken after RETINT; the simulator forgets it until the next period.
4. `rtl_atom`: an interrupt may cancel ATOM after its write; executed again, it finds its own 1, and a
   free lock is seen as taken by a program although nobody holds it. TBM has the same weakness
   (it toggles twice).
5. `rtl_softint`: an external interrupt taken at the update of a SOFTINT saves the address after the SOFTINT, whose own
   request is overwritten at the same clock: the SOFTINT never happens.

The others are the reason why a property has the form it has, and are stated next to it:

6. `RamAsConfigured`: a size given after the program changes `ram_size` and not the RAM, so that an access outside of the allocation passes the
   check.
7. `LastPrevails`: a period of 0 does not disable an interrupt that was enabled before.
8. `ProgramRuns`: a program as long as the RAM is refused, although it is not larger.
9. `ProgramsEnd`: `memset` keeps its step in R12, which `str8` uses: it writes a byte every 768 until it leaves the RAM.
10. `CallsCompute`: `math.asm:98` says ceil(log2), and `clog2` gives one more for a power of two. `Result` takes the comment's definition, with this exception.
11. `PushedIsPopped`: README.md says that CALL pushes its own address and RET adds one; the simulator pushes the address after it and RET adds
    nothing (the processor does what the document says). README.md also says of POP what PUSH does, and the reverse.
12. `LastPrevails`: a period is cut to an `int`: 2^32 gives an interrupt that is enabled with a period of 0, and is raised at every instruction.

Two more have no run. In the processor GETINT gives 0, because `getint_out` is a clock late (`reflet_interrupt.v:112-131`), and
the address it should have given is ORed into what the next instruction writes (`reflet_cpu.v:40`); no program of the run uses
GETINT. The processor may also take an interrupt after the instruction that disables it, because the latched request was masked with the
old status register (`reflet_interrupt.v:50`). A program cannot tell it from one that came just before, and
`MatchesSimulator` holds in `InByteMode`, which does so.

### Fairness

The simulator is one thread, and nothing it does can be disabled while it runs: `FairSpec` (and
`PairSpec` of `Undisturbed`) have weak fairness of the whole next-state relation, which says only that the process keeps
running. `getchar` is assumed to return. There is no fairness between the timers and the program,
since the code has none: that the program goes on is a consequence of the periods, and is checked.

The processor's only fairness is that the clock does not stop. `PairSpec` of `RtlLockstep` says so as
`[]<><<TRUE>>_pairVars`: a step that changes something is possible at every edge, as an input may
change, so that this is weak fairness of the next-state relation. Nothing is assumed of the inputs: the
liveness properties say themselves that `enable` is raised again and again, and `ProgramEnds` that
the requests cease.

`ProgramsSpec` has weak fairness of the simulator's steps, for the same reason. `Boot` has no liveness property: every step reads
an argument or a line, of which there are finitely many.

`Ended` is the process after it has exited; with it no run needs to turn deadlock checking off.

## What is proved

Twenty-four of the properties that runs check are theorems: all those of `BootProps`, those of `SimulatorProps`, `TrapWatch` and `RtlProps` that are not
liveness or a premise on programs, `MutualExclusion` and `PrintsWhatItRead` of `SharedLock`, and `InstructionsAgree` of `RtlLockstep`. Each is proved for every value of the constants that the assumptions allow.

### Words

`Words_proofs` is what the other proofs know of machine words, for every width: powers of two, quotients and remainders, the sum of a
finite set of numbers, and, built on them, the correspondence between a word and the set of its bits. `WordOperators` says that the bits of
`BitAnd`, `BitOr` and `BitXor` are the intersection, the union and the symmetric difference; `OrZero` that a wire nobody drives
disappears in an OR. `FromBits` is a fold, which the provers cannot unfold, and an induction theorem cannot be instantiated: so an
induction is written with its least counterexample (`LeastElement`, from the well-foundedness of `<`, and `Induction` for sets of
naturals), a power of two is the number of subsets of an interval (`PowCardinality`), and the sum is the value of a function
that is shown to exist and to be the only one (`SumExists`, `SumUnique`). `Boot_proofs` reasons about its recursive definitions the same way.

### The simulator

For every word size, RAM, image, set of timers, input and content of `malloc` (the assumptions are
`SimulatorAssumption` and `HostBitsAssumption`), in `Simulator_proofs`:

- `Nesting`: `Spec => []NestInv`;
- `SimulatorNests`: `Spec => NestSpec`, the refinement of `PriorityNest`;
- `FetchIsChecked`: `Spec => []FetchChecked`, if the start address is in the RAM.

The inductive invariant is `IInv == Shape /\ NestInv`. `NestInv` alone is not inductive, since opening a
context updates two functions and a record whose domains must be known: `Shape` says them and that the level
is one of five. It does not bound the other values, so that the proof does not depend on what the
arithmetic computes. Only three things happen to the interrupt state: a context
opens above all others (`OpenContext`), the current one closes (`CloseContext`), or the chain stays
(`KeepContexts`). Each lemma gives the invariant and the step of `PriorityNest` at once, and each action of the
simulator is one of the three. The facts about the chain itself are in `Contexts_proofs`
(`OpenOnTop`, `CloseTop`, `NoneOpen`), which do not mention the simulator. `FetchIsChecked` adds that the PC
is in the RAM when `check_int` begins.

In the same module and in the same generality:

- `SimulatorTypes`: `Spec => []TypeOK`;
- `TrapGoesToRoutine`: `WatchSpec => []TrapRunsRoutine`;
- `StoresAreLoaded`: `Spec => StoredIsLoaded`, if `2 * RamSize <= HostMod`;
- `PushesArePopped`: `Spec => PushedIsPopped`, if `RamSize + WordBytes <= WordMod` and `2 * RamSize <= HostMod`.

`TypeInv` is `IInv` with what `IInv` leaves out: every register is a word of the host, every cell of the RAM a byte, every counter below its period. Most
of its proof is that each operator gives a word (the ALU, the reduced sizes, the bytes of a store).

`TrapRunsRoutine` is an invariant over several steps: `WatchInv` adds to it that the PC stays at the routine from the access through `io` and
`check_int`, where no timer is accepted since the level is 0. Its steps are that the access moves the PC to the routine through its two
decrements and its increment, all three of which may wrap, and `RoutineGoesOn`: at level 0 no instruction but RETINT leaves the level or its
entry of the stack of levels. `StoredIsLoaded` and `PushedIsPopped` are about one step each, from a state of `TypeInv`. `StoredLoads` is about a store and the load
after it in any size, from one byte to more than a `word_t` holds; for the sizes and shifts that C leaves undefined it is proved for each of their outcomes. `SizeIsKept` says that the size which the code computes again
after the trap is the one it checked: only the byte mode depends on the level, and in byte mode no access is misaligned.

The hypotheses on sizes are ones that every host meets: the code checks `addr + n > RamSize` in a word that wraps, and in a RAM of more than half of the
addresses (or one that ends less than a word before the last address of the stack) an access may pass the check by wrapping. `StoredIsLoaded` is not
true of it.

### The lock

In `SharedLock_proofs`, for the program and the routine of `SharedLock` with every set of timers, every input, every content of `malloc` and
every width of the addresses of the host:

- `LockExcludes`: `Spec => []MutualExclusion`;
- `PrintsItsCharacter`: `Spec => PrintsWhatItRead`.

The assumption `LockMachine` fixes what the program is written for: its image, 96 bytes of RAM, words of one byte and extended I/O. The timers
are free, several of them at once and with any periods, shorter than the routine included, when the program gets nowhere but is still
safe; this is what the run, with one timer of 48 periods, cannot say.

`MutualExclusion` is not inductive: it speaks of two program counters and one cell, and a step may go wrong only because of what has
happened to the code, to the stack or to a register before. `LockInv` is the conjunction of

- `Places`: where the program and the routine may be, at each phase of the turn, with at most the routine of 1 open above the program;
- `CodeKept`: the bytes from 4 to 87 are those of the image, so that what is fetched is known (`ImageBytes` is the listing);
- `StackKept`: the stack pointer at each address, and that what the routine has pushed is what the program had. Through it `ProgramWR` and
  `ProgramSR` are the registers of the program whoever runs;
- `ProgramRegisters` and `RoutineRegisters`: what each of the two has in its registers at each address: the addresses it
  loads and stores, which are what keeps `CodeKept` and the lock from being written over, and the targets of its jumps;
- `Locked`: who holds the lock. It begins at the ATOM and not at the critical section: between the two the comparison bit says that the cell was
  free, and an interrupt may fall there, which saves the bit and gives it back (`ProgramHolds`, `RoutineHolds`);
- `Characters`: a command of the I/O lasts for one turn, and the character cell is that of who holds the lock.

TLC checked `LockInv` on the run before it was proved. A lemma for each instruction says what a turn of it does (`StrTurn`, `AtomTurn`, `RetintTurn`, ...), from
`Simulator` and `TypeInvariance`; `ProgramStep` and `RoutineStep` go through the listing with them, an instruction at a time, and
`TimerStep` and `IoStep` are the other two phases.

### The processor

In `RtlInterrupt_proofs`, for the controller by itself, with any requests, masks, instructions, routines and
contents at power-up, clock by clock:

- `ControllerNesting`: `Spec => []NestInv`;
- `ControllerNests`: `Spec => NestSpec`, again the refinement of `PriorityNest`.

Its assumption on the CPU is `Env`: RETINT is executed only inside of an interrupt, and the PC then becomes the
address the controller gives. Outside of an interrupt the entry that the code reads does not exist, so that nothing
could be proved without the first half. `ProcessorNests` below replaces it, for the controller inside of the processor, by a premise on the
program. The invariant has the two shape conjuncts the functional updates need, and the steps are the three of
the simulator, `OpenOnTop` and `CloseTop` of `Contexts_proofs` serving both.

In `RtlCpu_proofs`, for the whole processor with any program, word size, memory and contents at power-up, and with `enable` and the
interrupt lines free at every clock (the assumptions are `RtlAssumption`, which bounds the constants by their widths, and `HostBitsAssumption`;
`SameComputation` below also uses `WholeWords`, and `RamInHost`, which the simulator assumes: its addresses have `HostBits` bits):

- `InstructionsAreAtPC`: `Spec => []ExecutesAtPC`;
- `StoresKeepTheRest`: `Spec => StoresItsBytes`.

Neither is inductive, because each speaks of one clock in about ten. The invariant says where the sequencer, the reader and the
writer are with respect to one another: `Phases` (the flags of the sequencer exclude one another), `Pipeline` (at which clock after
a request the reader has its word, and that the writer comes after it), then what the bus carries: in a fetch the PC, then the word
there, then the byte (`FetchOnBus`), in a store its address, the word there, and that word with the bytes changed (`StoreOnBus`,
`WriteOnBus`). From there, the instruction stays the byte at the PC until the update, since only its own store can change it
(`InstructionAtPC`). A write made while `enable` is low is repeated at each clock: `WriteOnBus` admits that the word already is in
memory. The proof goes through words as sets of bits without computing any, so that it holds for every width.

In `RtlTypes_proofs`, in the same generality, for the programs that satisfy `ReturnsFromRoutines`:

- `RegistersKeepTheirWidth`: `Spec /\ []ReturnsFromRoutines => []TypeOK`;
- `ProcessorNests`: `Spec /\ []ReturnsFromRoutines => NestSpec`;
- `MisalignedIsTrapped`: `Spec /\ []ReturnsFromRoutines => TrapTaken`;
- `SameComputation`: `PairSpec /\ []ReturnsFromRoutines /\ []NoneAfterGetInt => InstructionsAgree`.

A RETINT outside of an interrupt may leave any level, after which none of the first three holds; one that follows a GETINT returns to an address with
the bits of another in it. The premise speaks of the program only, and `rtl_lockstep` checks it of each of its programs. To the invariant of `RtlCpu_proofs` the proofs add
`Typed` (what each register and wire may hold, the terms that the units OR being words by `WordOperators`), `ReturnAddress` (when a RETINT is about
to be carried out no other unit has anything in `content`, `getint_out` included, so that at the update it is the address of the context: `ReturnContent`, by `OrZero`), and `Trapping`
(on the bus an access has its own address, and once its alignment was found wrong the request of interrupt 0 stays latched up to the update). With `ReturnAddress` each step is one of `PriorityNest`: an entry is `EnterNests`, RETINT `ReturnNests`, SETINTSTACK
`RedirectNests`.

`SameComputation` is about the two machines together, which come to the state after the instruction in different ways, so that the proof names that
state in the words of neither: `Carried` is what an instruction on registers makes of them, `Accessing` what an access does, with `Loaded` for what it
reads. The processor comes to it over several clocks, through three invariants that join those of `RtlCpu_proofs`: `Result` (at the update `content`
holds what the ALU, or the reader, or the WR gives for the registers that are still there, and nothing of another unit), `LoadOnBus` (the
reader of a load has the bytes at its address, which `Trapping` keeps on the bus) and `StoredInRam` (when the instruction ends, the word in the
memory has the bytes of the store). `StepResult`, `StepLoadOnBus` and `StepStoredInRam` are their steps, `ProcessorCarries` and `ProcessorAccesses` the update. The
simulator comes to it in one step, with operators of its own (`SimulatorCarries`, `SimulatorAccesses`), once it is known to fetch the same byte: a byte
of its memory is a byte of a word of the other's (`ByteOfRam`, `SimulatorFetches`), which is where the memory must be a whole number of words
(`WholeWords`). Between the two stands the layout of an access: the simulator adds bytes, the reader masks and shifts a word
(`TakenBytes`), and the writer merges bits where the simulator writes bytes (`PutBytes`), for an aligned access within one word (`InOneWord`).
`NoneAfterGetInt` keeps out an instruction on registers right after a GETINT, which would have the bits of the level in its result; the programs of
`rtl_lockstep` have no GETINT.

### The start of the simulator

In `Boot_proofs`, for every command line, every file, every set of readable and writable names (`BootAssumption`):

- `RamHasConfiguredSize`: `Spec => []RamAsConfigured`;
- `StartsQuietly`: `Spec => []NothingPending`;
- `MaskFollowsWordSize`: `Spec => []WordSizeAgrees`;
- `OptionsReadOneValue`: `Spec => []OneAwaited`;
- `StartTypes`: `Spec => []TypeOK`, where an interrupt that has a period is enabled, and not the converse;
- `LinesMeanWhatTheySay`: `Spec => []LinesRead`;
- `LastArgumentPrevails`: `Spec => []LastPrevails`;
- `ProgramMeantRuns`: `Spec => []ProgramRuns`;
- `ProgramStartsInRam`: `Spec => []StartsInRam`.

The first four come from one inductive invariant, `IInv`: these properties, `Places` (the program that was loaded
is an earlier argument, and the file being applied is the value of the option two arguments before) and `Prepared`
(`NothingPending` from the load on). The exceptions of the properties, an option after the program, are what makes it hard: an option takes effect at
its value, one argument later, so that the proof needs `Places` and `OneAwaited` to know that the option read came after the
program too (`AwaitedAfterProgram`).

`LinesRead` is about one line. `preprocessLine` is a fold over its tokens: `ReadingSteps` makes it a step per token, and `Reached` says for each state of
the automaton how many words were read and which (`LineMeaning`, `WordsMeant`). Words must be apart: the automaton never sees two in a row.

`LastPrevails` and `ProgramRuns` compare the state of the program with a meaning defined on the whole command line, so that the invariant `MInv`
says what that meaning is after the arguments, and the lines of the current file, read so far: `ConfigKnown` for each setting (an interrupt is enabled if the last period
that is not 0 was ever given, and has that period cut to an `int`), `Awaiting` for
the option whose value comes next, `LogKnown`, `ProgramKnown` and `IgnoreKnown` for the log, the program and `-!`, `LinesLeft` for the file, and `Loaded` for
the bytes of the RAM. `OneMoreArgument` unfolds the meaning by one argument, and `IsValueIs` the recursion that tells values from options. A
file that a later argument opens as the log is empty from then on, and would change the meaning of the arguments before it if the meaning did not say which
were read before: `NoneEmptied` is that nothing already read changes.

### What is only model-checked

- What compares two machines over a whole program: `MatchesSimulator` of `RtlLockstep`, `ProgramUndisturbed` and `SameOutput` of `Undisturbed`. The relation
  between the two is about particular programs (which registers a routine restores), that the constants give as bytes. `SameComputation` is the step of such a comparison for most instructions.
- `Programs`: the images are made by `Assembler`, whose expansion and layout are RECURSIVE operators, which keep the provers out of any
  module that reaches them.
- `PulseTaken`, `Responds`, and the properties that something ends (`LockingEnds` of the lock, `ProgramEnds`, `ProgramsEnd`): liveness under fairness is out of the reach of the prover.

## Not modelled

- Simulator: the log and the messages to stderr (all of stdout is modelled); I/O addresses outside of the RAM while it runs; the overflow of the counter
  of a timer that is not enabled, which is never read. Words of 64 bits are beyond the integers of TLC: the runs keep fewer bits
  (`HostBits`), the theorems have any number.
- Start: the characters of numbers and words (`sscanf`), words of more than 100 characters, lines longer than the buffer of `fgets`,
  a `calloc` that fails, the help text.
- Assembler: reading the text of a source, its errors, sections, macros of the user, the options of the command line other than the word size, 32-bit
  accesses, `rawbyte` and `slp`. With 64-bit words the
  constant of `set+` and `setlab` is four bytes after an aligned address, so that loading it is a misaligned access; no run has such words.
- Libraries: `extendedIO.asm`, which `import_all_libs.asm` does not import; `intDiv` by 0, which does not end; `strFlip` of an empty string,
  which swaps the terminator with the byte before it; `printNum` with 64-bit words, whose string lies where the calls it makes have
  their stack.
- Operating system: a switch made by a timer. Its test uses SOFTINT; between the macros of `reflet_os.asm` and the RET that ends a switch
  a timer could fire in either context, which nothing in the repository guards against or uses.
- RTL: the debug outputs, a reset while running, and the stimuli of the test benches.
- The log (`debug.c`) formats what it reads; the legacy assemblers are superseded; the regression tester runs commands; the other programs of `software/` are
  examples.

## What could come next

1. Words of 8 and 32 bits in `RtlLockstep` and in `Programs`, and `RtlAlu` against the ALU of `Simulator` over all pairs of 8-bit words.
2. The two RTL findings fixed in the Verilog, with `rtl_atom` and `rtl_softint` turned into passing images of `rtl_lockstep`.
3. Theorems: the agreement of the two machines for CALL, RET, ATOM and the instructions on interrupts, and from there, by the sequence of the
   instructions, `MatchesSimulator` for whole programs.
4. The text of a source in `Assembler`, if an operator on characters is found that says less than the code.
