------------------------------ MODULE TrapWatch ------------------------------
(***************************************************************************)
(* The simulator with a record of the trap of a misaligned access, from    *)
(* the access to the end of the routine of interrupt 0.  The record is     *)
(* made from the registers and the alignment alone, and looks at nothing   *)
(* of what the access does to the interrupts and the PC.                   *)
(***************************************************************************)
EXTENDS SimulatorProps

VARIABLE trap   \* how far the last trap has got, and the level it came from

watchVars == <<vars, trap>>

NoTrap == [stage |-> "none", level |-> LEVEL_NORMAL]

(* The next instruction accesses n bytes at addr, and does not jump.       *)
DataAccess(addr, n) ==
    \/ \E op \in {STR, LOAD} : Executes(op) /\ addr = Argument /\ byteExchanged(FALSE) = {n}
    \/ Executes(ATOM) /\ addr = WR /\ byteExchanged(FALSE) = {n}
    \/ Executes(PUSH) /\ addr = SP /\ n = WordBytes
    \/ Executes(POP) /\ addr = Below(SP) /\ n = WordBytes

(* It is to be trapped: it is misaligned, outside of the context of        *)
(* interrupt 0, and both the trap and interrupt 0 are enabled.             *)
ToTrap ==
    /\ Bit(SR, 1) /\ Bit(SR, SR_TRAP) /\ int_level.level # 0
    /\ \E addr \in Addresses, n \in byteExchanged(FALSE) \cup {WordBytes} :
         DataAccess(addr, n) /\ addr % n # 0

(* The record ends with the RETINT of the routine, or where the routine    *)
(* fetches bytes outside of the RAM, of which nothing is known.            *)
RecordTrap ==
    trap' = IF ToTrap /\ phase' = "io" THEN [stage |-> "raised", level |-> int_level.level]
            ELSE IF trap.stage = "none" \/ Executes(RETINT) \/ PC \notin Addresses THEN NoTrap
            ELSE [trap EXCEPT !.stage = "running"]

WatchInit == Init /\ trap = NoTrap

WatchNext ==
    \/ RunInst /\ RecordTrap
    \/ (CheckInt \/ Io \/ Ended) /\ UNCHANGED trap

WatchSpec == WatchInit /\ [][WatchNext]_watchVars

(* The first instruction executed after a misaligned access is the first   *)
(* of the routine of interrupt 0, though the PC is moved three times and   *)
(* timers may expire in between; from there to its RETINT nothing          *)
(* interrupts the routine, and that RETINT leads back to the level that    *)
(* the access was made at.                                                 *)
TrapRunsRoutine ==
    /\ trap.stage = "raised" /\ phase = "run_inst" => PC = routine[0]
    /\ trap.stage # "none" => /\ int_level.level = 0
                              /\ int_level.level_stack[0] = trap.level
=============================================================================
