--------------------------------- MODULE Os ---------------------------------
(***************************************************************************)
(* The context switch of the operating system (software/os/reflet_os.asm)  *)
(* and the two tasks of its test (tests/basic_context_switching.asm).      *)
(***************************************************************************)
EXTENDS Libs

CONSTANTS
    stack_size, task_1_stack,   \* of the test, where the RAM of a model has them
    Hi, Hello                   \* what the tasks print, characters of a string

(* is_in_stack_2 looks at a bit of the stack pointer. *)
ASSUME OsAssumption ==
    /\ \E k \in 1..15 : stack_size = 2^k
    /\ task_1_stack \in Nat /\ task_1_stack % (2 * stack_size) = 0

task_2_stack == task_1_stack + stack_size
task_1_store == task_2_stack + stack_size
task_2_store == task_1_store + 64

context_saving_register == 2
loop_count_register == 3
used_interrupt == 3

-----------------------------------------------------------------------------
(* reflet_os.asm *)

Pops(n) == [k \in 1..n |-> <<"pop">>]

(* Mutant: R1 and R2 are saved after R1 has been used. *)
ros_save_contextLate(r, int) ==
    <<<<"push">>, <<"push">>, <<"read", sp>>, <<"cpy", 1>>>> \o PushedDot(<<1, 2>>)
      \o <<<<"mov.", 1, sp>>>>
      \o Pops(4) \o <<<<"getintstack", int>>, <<"push">>, <<"mov.", sp, 1>>>>
      \o PushedDot(<<3, 4, 5, 6, 7, 8, 9, 10, 11, 12, sr>>) \o <<<<"mov.", r, sp>>>>

(* The address to come back to goes below the registers, in the first of   *)
(* the two words pushed for it.                                            *)
ros_save_context(r, int) ==
    <<<<"push">>, <<"push">>>> \o PushedDot(<<1, 2>>)
      \o <<<<"read", sp>>, <<"cpy", 1>>>>
      \o Pops(4) \o <<<<"getintstack", int>>, <<"push">>, <<"mov.", sp, 1>>>>
      \o PushedDot(<<3, 4, 5, 6, 7, 8, 9, 10, 11, 12, sr>>) \o <<<<"mov.", r, sp>>>>

ros_restore_context(r) ==
    <<<<"mov.", sp, r>>>> \o PoppedDot(<<sr, 12, 11, 10, 9, 8, 7, 6, 5, 4, 3, 2, 1>>)
      \o <<<<"pop">>, <<"label", "resume">>, <<"ret">>>>

-----------------------------------------------------------------------------
(* basic_context_switching.asm.  The label "resume" marks the last         *)
(* instruction of a switch, for the properties; it takes no room.          *)

routine_1 ==
    <<<<"label", "routine_1">>, <<"set", 3>>, <<"leseq", loop_count_register>>,
      <<"jifl", "quit">>, <<"inc.", loop_count_register>>>>
      \o _prints("Hi")
      \o <<<<"softint", used_interrupt>>, <<"goto", "routine_1">>,
           <<"label", "quit">>, <<"quit">>>>

routine_2 ==
    <<<<"label", "routine_2">>>> \o _prints("Hello")
      \o <<<<"softint", used_interrupt>>, <<"set", 15>>, <<"cpy", loop_count_register>>,
           <<"goto", "routine_2">>>>

is_in_stack_1 ==
    <<<<"label", "is_in_stack_1">>, <<"setr", 1, task_1_store>>,
      <<"read", context_saving_register>>, <<"str", 1>>,
      <<"set+", task_2_store>>, <<"cpy", 1>>, <<"load", 1>>,
      <<"cpy", context_saving_register>>, <<"retint">>>>

is_in_stack_2 ==
    <<<<"label", "is_in_stack_2">>, <<"setr", 1, task_2_store>>,
      <<"read", context_saving_register>>, <<"str", 1>>,
      <<"setr", 1, task_1_store>>, <<"load", 1>>,
      <<"cpy", context_saving_register>>, <<"retint">>>>

(* Mutant: a task always finds the context of the other one. *)
int_trigOne ==
    <<<<"label", "int_trig">>>> \o ros_save_context(context_saving_register, used_interrupt)
      \o <<<<"setlab", "int_restore">>, <<"setintstack", used_interrupt>>>> \o is_in_stack_1

int_trig ==
    <<<<"label", "int_trig">>>> \o ros_save_context(context_saving_register, used_interrupt)
      \o <<<<"setlab", "int_restore">>, <<"setintstack", used_interrupt>>,
           <<"set+", stack_size>>, <<"and", sp>>, <<"cpy", 8>>,
           <<"set", 0>>, <<"eq", 8>>, <<"cmpnot">>, <<"jifl", "is_in_stack_2">>>>
      \o is_in_stack_1 \o is_in_stack_2

int_restore == <<<<"label", "int_restore">>>> \o ros_restore_context(context_saving_register)

fake_task_2_ctx ==
    <<<<"setlab", "routine_2">>, <<"push">>, <<"push">>>>
      \o PushedDot(<<1, 2, 3, 4, 5, 6, 7, 8, 9, 10, 11, 12, sr>>)

start ==
    <<<<"label", "start">>, <<"mov.", sp, 1>>, <<"setlab", "int_trig">>,
      <<"setint", used_interrupt>>, <<"set8", 255>>, <<"or", sr>>, <<"cpy", sr>>,
      <<"setr", 2, task_2_store>>, <<"setr", sp, task_2_stack>>>>
      \o fake_task_2_ctx
      \o <<<<"read", sp>>, <<"str", 2>>, <<"set", 0>>, <<"cpy", loop_count_register>>,
           <<"set+", task_1_stack>>, <<"cpy", sp>>, <<"goto", "routine_1">>>>

(* Of the libraries, what prints needs. *)
basic_context_switching ==
    routine_1 \o routine_2 \o int_trig \o int_restore \o start
      \o printc \o strlen \o print_n \o print \o String("Hi", Hi) \o String("Hello", Hello)
=============================================================================
