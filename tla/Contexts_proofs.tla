--------------------------- MODULE Contexts_proofs ---------------------------
(***************************************************************************)
(* What opening and closing a context do to a well nested chain.           *)
(***************************************************************************)
EXTENDS Contexts, TLAPS

(* The chain of table from level has gained i on top of what it was. *)
OnTop(table, level, new, i) ==
    /\ WellNested(new, i)
    /\ Open(new, i) = Open(table, level) \cup {i}
    /\ \A l \in Open(table, level) : i < l

(* A context that opens inside of lower priorities is put on top. *)
LEMMA OpenOnTop ==
    ASSUME NEW table, DOMAIN table = Ints,
           NEW level \in 0..LEVEL_NORMAL, WellNested(table, level),
           NEW i \in Ints, i < level,
           NEW new, new = [table EXCEPT ![i] = level]
    PROVE  OnTop(table, level, new, i)
<1>1. \A l \in Open(table, level) : Under(table, l) \in (l + 1)..LEVEL_NORMAL /\ i < l
  BY DEF WellNested, Open, Under, LEVEL_NORMAL, Ints
<1>2. /\ Under(new, i) = level
      /\ \A l \in Open(table, level) \cup {LEVEL_NORMAL} : Under(new, l) = Under(table, l)
  BY <1>1 DEF Under, LEVEL_NORMAL, Ints, Open
<1>3. Open(new, i) = Open(table, level) \cup {i}
  BY <1>1, <1>2 DEF Open, Under, LEVEL_NORMAL, Ints
<1>4. level \in (i + 1)..LEVEL_NORMAL
  BY DEF LEVEL_NORMAL, Ints
<1>5. WellNested(new, i)
  BY <1>1, <1>2, <1>3, <1>4 DEF WellNested
<1> QED
  BY <1>1, <1>3, <1>5 DEF OnTop

(* Closing the current context removes it and nothing else, and it was the *)
(* one of the highest priority.                                            *)
LEMMA CloseTop ==
    ASSUME NEW table,
           NEW level \in Ints, WellNested(table, level)
    PROVE  /\ table[level] \in (level + 1)..LEVEL_NORMAL
           /\ WellNested(table, table[level])
           /\ Open(table, table[level]) = Open(table, level) \ {level}
           /\ level \in Open(table, level)
           /\ \A l \in Open(table, level) : level <= l
<1>1. \A l \in Open(table, level) : Under(table, l) \in (l + 1)..LEVEL_NORMAL /\ level <= l
  BY DEF WellNested, Open, Under, LEVEL_NORMAL, Ints
<1>2. /\ Under(table, level) = table[level]
      /\ level \in Open(table, level)
  BY DEF Open, Under, LEVEL_NORMAL, Ints
<1>3. Open(table, table[level]) = Open(table, level) \ {level}
  BY <1>1, <1>2 DEF Open, Under, LEVEL_NORMAL, Ints
<1>4. WellNested(table, table[level])
  BY <1>1, <1>3 DEF WellNested
<1> QED
  BY <1>1, <1>2, <1>3, <1>4

(* Outside of every interrupt no context is open. *)
LEMMA NoneOpen ==
    ASSUME NEW table
    PROVE  Open(table, LEVEL_NORMAL) = {} /\ WellNested(table, LEVEL_NORMAL)
BY DEF Open, Under, WellNested
=============================================================================
