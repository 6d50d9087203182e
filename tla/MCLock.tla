------------------------------- MODULE MCLock -------------------------------
(***************************************************************************)
(* SharedLock with timers that fire at every instruction of the program in *)
(* turn, and with none.                                                    *)
(***************************************************************************)
EXTENDS SharedLock, TLC

MCImages == {Image}

MCTimers == {1 :> f : f \in 23..70} \cup {<<>>}

MCStdin == {97, 98, EOF}
=============================================================================
