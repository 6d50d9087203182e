------------------------- MODULE RtlInterrupt_proofs -------------------------
(***************************************************************************)
(* The interrupt controller of the processor, whatever requests come,      *)
(* whatever the program does, and whatever its memories hold at power up:  *)
(* its contexts nest by priority, and it implements PriorityNest.          *)
(***************************************************************************)
EXTENDS RtlInterrupt, Contexts_proofs

(* NestInv by itself is not inductive: opening a context updates two       *)
(* functions whose domain must be known.                                   *)
IInv ==
    /\ level \in 0..LEVEL_NORMAL
    /\ DOMAIN level_memory = Ints
    /\ DOMAIN addr_memory = Ints
    /\ NestInv

NestStep == Nest!NestNext \/ UNCHANGED Nest!nestVars

(* The requested level is that of an interrupt when it is below the        *)
(* current one, since the current one is at most LEVEL_NORMAL.             *)
LEMMA TargetIsInterrupt ==
    ASSUME level \in 0..LEVEL_NORMAL, new_int
    PROVE  target_level \in Ints /\ target_level < level
BY DEF new_int, target_level, LEVEL_NORMAL, Ints

(* An interrupt opens its context inside those of lower priority. *)
LEMMA EnterStep ==
    ASSUME IInv, Enter
    PROVE  IInv' /\ NestStep
<1>1. PICK i \in Ints : i = target_level /\ i < level
  BY TargetIsInterrupt DEF IInv, Enter
<1>2. /\ level' = i
      /\ addr_memory' = [addr_memory EXCEPT ![i] = addr_memory'[i]]
  BY <1>1 DEF Enter, IInv
<1>3. /\ level \in 0..LEVEL_NORMAL /\ i < level
      /\ DOMAIN level_memory = Ints /\ WellNested(level_memory, level)
      /\ level_memory' = [level_memory EXCEPT ![i] = level]
  BY <1>1 DEF Enter, IInv, NestInv
<1>4. NestInv' /\ Active' = Active \cup {i} /\ \A l \in Active : i < l
  <2>1. OnTop(level_memory, level, level_memory', i)
    BY <1>3, OpenOnTop
  <2> QED
    BY <1>2, <2>1 DEF OnTop, NestInv, Active
<1>5. IInv'
  BY <1>2, <1>3, <1>4 DEF IInv, LEVEL_NORMAL, Ints
<1>6. Nest!Enter(i)
  BY <1>2, <1>4 DEF Nest!Enter
<1> QED
  BY <1>1, <1>5, <1>6 DEF NestStep, Nest!NestNext, Ints, Nest!Ints

(* RETINT inside of an interrupt closes the innermost context. *)
LEMMA ReturnStep ==
    ASSUME IInv, Return, Env
    PROVE  IInv' /\ NestStep
<1>1. /\ level \in Ints
      /\ level' = level_memory[level]
      /\ program_counter' = addr_memory[level]
      /\ UNCHANGED <<level_memory, addr_memory>>
  BY DEF Return, Env
<1>2. /\ level_memory[level] \in (level + 1)..LEVEL_NORMAL
      /\ NestInv' /\ Active' = Active \ {level}
      /\ level \in Active /\ \A l \in Active : level <= l
  BY <1>1, CloseTop DEF IInv, NestInv, Active
<1>3. IInv'
  BY <1>1, <1>2 DEF IInv, LEVEL_NORMAL, Ints
<1>4. Nest!Leave(level)
  BY <1>1, <1>2 DEF Nest!Leave, Nest!Innermost
<1> QED
  BY <1>1, <1>3, <1>4 DEF NestStep, Nest!NestNext, Ints, Nest!Ints

(* SETINTSTACK changes one address and no context. *)
LEMMA RedirectStep ==
    ASSUME IInv, NEW n \in Ints, Redirect(n)
    PROVE  IInv' /\ NestStep
<1>1. /\ UNCHANGED <<level, level_memory>>
      /\ addr_memory' = [addr_memory EXCEPT ![n] = addr_memory'[n]]
      /\ DOMAIN addr_memory' = Ints
  BY DEF Redirect, IInv
<1>2. IInv' /\ Nest!Redirect(n)
  BY <1>1 DEF IInv, NestInv, Active, Nest!Redirect
<1> QED
  BY <1>2 DEF NestStep, Nest!NestNext, Ints, Nest!Ints

(* Any other clock leaves the contexts alone. *)
LEMMA StayStep ==
    ASSUME IInv, UNCHANGED nestVars
    PROVE  IInv' /\ NestStep
BY DEF nestVars, IInv, NestInv, Active, NestStep, Nest!NestNext, Nest!Run

LEMMA StepIInv ==
    ASSUME IInv, [Next]_vars
    PROVE  IInv' /\ NestStep
<1>1. CASE UNCHANGED vars
  BY <1>1, StayStep DEF vars, registerVars
<1>2. CASE Next
  <2>1. CASE Enter
    BY <2>1, EnterStep
  <2>2. CASE Return
    BY <1>2, <2>2, ReturnStep DEF Next
  <2>3. CASE Stay
    BY <2>3, StayStep DEF Stay
  <2>4. CASE \E n \in Ints : Redirect(n)
    BY <2>4, RedirectStep
  <2> QED
    BY <1>2, <2>1, <2>2, <2>3, <2>4 DEF Next, Clock
<1> QED
  BY <1>1, <1>2

LEMMA InitIInv == Init => IInv /\ Nest!NestInit
BY NoneOpen DEF Init, Reset, IInv, NestInv, Active, LEVEL_NORMAL, Nest!NestInit

(* The contexts of the controller nest by priority. *)
THEOREM ControllerNesting == Spec => []NestInv
<1>1. IInv /\ [Next]_vars => IInv'
  BY StepIInv
<1>2. IInv => NestInv
  BY DEF IInv
<1> QED
  BY InitIInv, <1>1, <1>2, PTL DEF Spec

(* The controller implements the interrupt system of PriorityNest. *)
THEOREM ControllerNests == Spec => NestSpec
<1>1. IInv /\ [Next]_vars => IInv' /\ [Nest!NestNext]_Nest!nestVars
  BY StepIInv DEF NestStep
<1> QED
  BY InitIInv, <1>1, PTL DEF Spec, NestSpec, Nest!NestSpec
=============================================================================
