---------------------------- MODULE PriorityNest ----------------------------
(***************************************************************************)
(* What the interrupt system of a Reflet machine promises, whoever         *)
(* implements it: at most one context per interrupt is open; one is opened *)
(* only inside contexts of a lower priority; the innermost context is the  *)
(* only one that closes, and the machine then goes on at the address it    *)
(* kept, an address that opening and closing other contexts leaves alone   *)
(* and that only a redirection (setintstack) changes.                      *)
(* A smaller number is a higher priority.                                  *)
(***************************************************************************)
EXTENDS Integers

VARIABLES pc,       \* where the machine goes on
          active,   \* the interrupts whose context is open
          resume    \* resume[i]: where to go on when the context of i closes

nestVars == <<pc, active, resume>>

Ints == 0..3

Innermost(i) == i \in active /\ \A j \in active : i <= j

NestInit == active = {}

(* Interrupt i opens its context inside those of lower priority.  The      *)
(* address to go on at later is the implementation's choice.               *)
Enter(i) ==
    /\ \A j \in active : i < j
    /\ active' = active \cup {i}
    /\ resume' = [resume EXCEPT ![i] = resume'[i]]

(* The innermost context closes. *)
Leave(i) ==
    /\ Innermost(i)
    /\ active' = active \ {i}
    /\ pc' = resume[i]
    /\ UNCHANGED resume

(* The program changes where the context of i will go on. *)
Redirect(i) ==
    /\ resume' = [resume EXCEPT ![i] = resume'[i]]
    /\ UNCHANGED active

(* Anything else leaves the contexts alone. *)
Run == UNCHANGED <<active, resume>>

NestNext ==
    \/ \E i \in Ints : Enter(i) \/ Leave(i) \/ Redirect(i)
    \/ Run

NestSpec == NestInit /\ [][NestNext]_nestVars
=============================================================================
