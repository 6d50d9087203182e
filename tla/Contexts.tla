------------------------------ MODULE Contexts ------------------------------
(***************************************************************************)
(* The chain of open interrupt contexts, as the simulator (level_stack in  *)
(* simulator/reflet.c) and the processor (level_memory in                  *)
(* rtl/reflet_interrupt.v) both keep it: the current level, 4 outside of   *)
(* every interrupt, and a table that gives for each interrupt the level    *)
(* its context will close to.                                              *)
(***************************************************************************)
EXTENDS Integers

Ints == 0..3
LEVEL_NORMAL == 4

(* The level that the context of l closes to. *)
Under(table, l) == IF l = LEVEL_NORMAL THEN LEVEL_NORMAL ELSE table[l]

(* The interrupts found by closing the contexts one by one. *)
Open(table, level) ==
    LET one == Under(table, level)
        two == Under(table, one)
    IN  {level, one, two, Under(table, two)} \ {LEVEL_NORMAL}

(* Every open context closes to one of a strictly lower priority. *)
WellNested(table, level) ==
    \A l \in Open(table, level) : Under(table, l) \in (l + 1)..LEVEL_NORMAL
=============================================================================
