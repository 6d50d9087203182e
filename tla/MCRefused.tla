----------------------------- MODULE MCRefused -----------------------------
(***************************************************************************)
(* The programs of MCInterrupts, with a record of the timer interrupts     *)
(* that the program enabled and that were raised in the context of an      *)
(* interrupt of higher priority.                                           *)
(***************************************************************************)
EXTENDS MCInterrupts

VARIABLE waiting    \* interrupts raised and not taken yet

WaitingInit == Init /\ waiting = {}

Raised == {i \in Expired : enabled_int(i) /\ int_level.level < i}

WaitingNext ==
    \/ CheckInt /\ waiting' = (waiting \cup Raised) \ {int_level'.level}
    \/ (RunInst \/ Io \/ Ended) /\ UNCHANGED waiting

WaitingSpec == WaitingInit /\ [][WaitingNext]_<<vars, waiting>>

(* README.md:106: "if you are in the context of interrupt 2 and interrupt  *)
(* 3 is raised, you will fall into the context of interrupt 3 only when    *)
(* you use retint from the context of interrupt 2".  So no instruction of  *)
(* the program itself runs while an interrupt it has enabled is waiting.   *)
RefusedIsTakenAfterReturn ==
    phase = "run_inst" /\ int_level.level = LEVEL_NORMAL =>
        \A i \in waiting : ~enabled_int(i)
=============================================================================
